---- MODULE Spec2Model ----
(***************************************************************************)
(* A model of bst-rs: the node algebra of src/node.rs (iterative and       *)
(* recursive forms) and the two containers IterativeBST / RecursiveBST of  *)
(* src/lib.rs, driven in lock-step by the same sequence of operations.     *)
(*                                                                         *)
(* HeapNode<T> = Option<Box<Node<T>>> is a sequence of length 0 (None) or  *)
(* 1 (Some(node)); a node is a record [value, left, right].  A mutable     *)
(* cursor `&mut HeapNode<T>` walking down the tree is a path: a sequence   *)
(* of field names "left" / "right" from the root link.                     *)
(***************************************************************************)
EXTENDS Integers, Sequences, FiniteSets, TLC

\* Values range over 1..MaxVal (T = i32 with its usual order).
MaxVal == 5
\* Bounds of the specification with extend(): values 1..ExtendVal, sequences
\* of at most MaxExtend values.
ExtendVal == 3
MaxExtend == 2
\* Bounds of the construction specification (From / FromIterator / extend).
BuildVal == 3
BuildLen == 3

\* Bounds of the iterator specifications: values 1..IterVal (1..RestartVal
\* where iterators are dropped and made again), and at most MaxExtraNext
\* calls of next() on an iterator that is used up.
IterVal == 4
RestartVal == 3
MaxExtraNext == 2
\* Bound of the specification with writes through retrieve_as_mut: values
\* 1..MutVal.
MutVal == 4
\* The traversal examples of the documentation insert the values 1..7.
ScenarioLen == 7

Values == 1..MaxVal

VARIABLES
    iter,       \* the IterativeBST: [root, size]
    rec,        \* the RecursiveBST: [root, size]
    before,     \* both containers as they were when the last call started
    last,       \* the last call: [op, arg, ret]
    contents,   \* the values inserted and not since removed
    panicked,   \* TRUE once an unwrap() met None
    vecA, vecB, \* inputs of the construction specification
    bstA, bstB, \* the containers built from them: [iter, rec]
    how,        \* which constructor built them
    cmp,        \* the outcome of bstA == bstB, once compared
    iterator,   \* the traversal iterator the client holds, if any
    frame       \* the running call of iterative_consume_in_order_vec: [pc, stack, elements]

vars == <<iter, rec, before, last, contents, panicked,
          vecA, vecB, bstA, bstB, how, cmp, iterator, frame>>

-----------------------------------------------------------------------------
(* Option / HeapNode *)

None == <<>>
Some(x) == <<x>>
is_some(o) == o # None
is_none(o) == o = None
\* Option::unwrap on a value known to be Some; callers model the None case.
unwrap(o) == o[1]

Node_new(value) == [value |-> value, left |-> None, right |-> None]

\* The link a cursor points at.
RECURSIVE slot(_, _)
slot(root, path) ==
    IF path = <<>> THEN root
    ELSE slot(unwrap(root)[Head(path)], Tail(path))

\* Assignment through a cursor: *cursor = link.
RECURSIVE write(_, _, _)
write(root, path, link) ==
    IF path = <<>> THEN link
    ELSE Some([unwrap(root) EXCEPT ![Head(path)] = write(@, Tail(path), link)])

-----------------------------------------------------------------------------
(* insert *)

RECURSIVE iterative_insert_loop(_, _, _)
iterative_insert_loop(root, cursor, value) ==
    LET link == slot(root, cursor) IN
    IF is_some(link)
    THEN LET node == unwrap(link) IN
         IF value = node.value THEN [ok |-> FALSE, root |-> root]
         ELSE IF value < node.value
              THEN iterative_insert_loop(root, Append(cursor, "left"), value)
              ELSE iterative_insert_loop(root, Append(cursor, "right"), value)
    ELSE [ok |-> TRUE, root |-> write(root, cursor, Some(Node_new(value)))]

\* Mutant: the new node is written over the link the descent started from,
\* keeping what that link held as its left subtree.
iterative_insert_at_start(root, value) ==
    IF iterative_insert_loop(root, <<>>, value).ok
    THEN [ok |-> TRUE,
          root |-> Some([value |-> value, left |-> root, right |-> None])]
    ELSE [ok |-> FALSE, root |-> root]

iterative_insert(root, value) == iterative_insert_loop(root, <<>>, value)

\* Mutant: a smaller value goes to the right and a larger one to the left.
RECURSIVE recursive_insert_swapped(_, _)
recursive_insert_swapped(self, value) ==
    IF value = self.value THEN [ok |-> FALSE, node |-> self]
    ELSE IF value > self.value
         THEN IF is_none(self.left)
              THEN [ok |-> TRUE, node |-> [self EXCEPT !.left = Some(Node_new(value))]]
              ELSE LET r == recursive_insert_swapped(unwrap(self.left), value) IN
                   [ok |-> r.ok, node |-> [self EXCEPT !.left = Some(r.node)]]
         ELSE IF is_none(self.right)
              THEN [ok |-> TRUE, node |-> [self EXCEPT !.right = Some(Node_new(value))]]
              ELSE LET r == recursive_insert_swapped(unwrap(self.right), value) IN
                   [ok |-> r.ok, node |-> [self EXCEPT !.right = Some(r.node)]]

\* self is a node; the result carries the node as the call leaves it.
RECURSIVE recursive_insert(_, _)
recursive_insert(self, value) ==
    IF value = self.value THEN [ok |-> FALSE, node |-> self]
    ELSE IF value < self.value
         THEN IF is_none(self.left)
              THEN [ok |-> TRUE, node |-> [self EXCEPT !.left = Some(Node_new(value))]]
              ELSE LET r == recursive_insert(unwrap(self.left), value) IN
                   [ok |-> r.ok, node |-> [self EXCEPT !.left = Some(r.node)]]
         ELSE IF is_none(self.right)
              THEN [ok |-> TRUE, node |-> [self EXCEPT !.right = Some(Node_new(value))]]
              ELSE LET r == recursive_insert(unwrap(self.right), value) IN
                   [ok |-> r.ok, node |-> [self EXCEPT !.right = Some(r.node)]]

-----------------------------------------------------------------------------
(* contains / retrieve *)

\* Mutant: the descent takes the wrong child.
RECURSIVE iterative_contains_swapped(_, _)
iterative_contains_swapped(root, value) ==
    IF is_some(root)
    THEN LET current == unwrap(root) IN
         IF value = current.value THEN TRUE
         ELSE IF value < current.value
              THEN iterative_contains_swapped(current.right, value)
              ELSE iterative_contains_swapped(current.left, value)
    ELSE FALSE

\* Mutant: the search looks into both subtrees instead of the one the
\* comparison selects.
RECURSIVE iterative_contains_searches_both(_, _)
iterative_contains_searches_both(root, value) ==
    IF is_some(root)
    THEN LET current == unwrap(root) IN
         IF value = current.value THEN TRUE
         ELSE \/ iterative_contains_searches_both(current.left, value)
              \/ iterative_contains_searches_both(current.right, value)
    ELSE FALSE

RECURSIVE iterative_contains(_, _)
iterative_contains(root, value) ==
    IF is_some(root)
    THEN LET current == unwrap(root) IN
         IF value = current.value THEN TRUE
         ELSE IF value < current.value
              THEN iterative_contains(current.left, value)
              ELSE iterative_contains(current.right, value)
    ELSE FALSE

RECURSIVE recursive_contains(_, _)
recursive_contains(self, value) ==
    IF value = self.value THEN TRUE
    ELSE IF value < self.value
         THEN IF is_none(self.left) THEN FALSE
              ELSE recursive_contains(unwrap(self.left), value)
         ELSE IF is_none(self.right) THEN FALSE
              ELSE recursive_contains(unwrap(self.right), value)

\* The returned reference is modelled by the value it points at.
RECURSIVE iterative_retrieve(_, _)
iterative_retrieve(root, value) ==
    IF is_some(root)
    THEN LET current == unwrap(root) IN
         IF value = current.value THEN Some(current.value)
         ELSE IF value < current.value
              THEN iterative_retrieve(current.left, value)
              ELSE iterative_retrieve(current.right, value)
    ELSE None

RECURSIVE recursive_retrieve(_, _)
recursive_retrieve(self, value) ==
    IF value = self.value THEN Some(self.value)
    ELSE IF value < self.value
         THEN IF is_none(self.left) THEN None
              ELSE recursive_retrieve(unwrap(self.left), value)
         ELSE IF is_none(self.right) THEN None
              ELSE recursive_retrieve(unwrap(self.right), value)

\* The returned `&mut T` is modelled by the place it points at: the path of
\* the node whose value field it borrows.
iterative_retrieve_as_mut(root, value) ==
    LET RECURSIVE loop(_)
        loop(cursor) ==
            LET link == slot(root, cursor) IN
            IF is_some(link)
            THEN LET current == unwrap(link) IN
                 IF value = current.value THEN Some(cursor)
                 ELSE IF value < current.value THEN loop(Append(cursor, "left"))
                 ELSE loop(Append(cursor, "right"))
            ELSE None
    IN  loop(<<>>)

\* The path is relative to self.
RECURSIVE recursive_retrieve_as_mut(_, _)
recursive_retrieve_as_mut(self, value) ==
    IF value = self.value THEN Some(<<>>)
    ELSE IF value < self.value
         THEN IF is_none(self.left) THEN None
              ELSE LET r == recursive_retrieve_as_mut(unwrap(self.left), value) IN
                   IF is_some(r) THEN Some(<<"left">> \o unwrap(r)) ELSE None
         ELSE IF is_none(self.right) THEN None
              ELSE LET r == recursive_retrieve_as_mut(unwrap(self.right), value) IN
                   IF is_some(r) THEN Some(<<"right">> \o unwrap(r)) ELSE None

\* Mutant: the write puts a fresh node in the place instead of changing the
\* value of the node that is there.
assign_replaces_node(root, reference, value) ==
    write(root, reference, Some(Node_new(value)))

\* *reference = value, for a reference handed out by retrieve_as_mut.
assign(root, reference, value) ==
    write(root, reference, Some([unwrap(slot(root, reference)) EXCEPT !.value = value]))

-----------------------------------------------------------------------------
(* height *)

Max2(a, b) == IF a >= b THEN a ELSE b

\* The inner `while size > 0` loop: one level of the breadth-first walk.
\* queue.pop_front() yields a link; unwrapping an absent link panics.
RECURSIVE iterative_height_level(_, _)
iterative_height_level(queue, size) ==
    IF size > 0
    THEN IF queue = <<>> \/ is_none(Head(queue))
         THEN [panic |-> TRUE, queue |-> queue]
         ELSE LET current == unwrap(Head(queue))
                  q1 == IF is_some(current.left)
                        THEN Append(Tail(queue), current.left) ELSE Tail(queue)
                  q2 == IF is_some(current.right)
                        THEN Append(q1, current.right) ELSE q1
              IN  iterative_height_level(q2, size - 1)
    ELSE [panic |-> FALSE, queue |-> queue]

RECURSIVE iterative_height_loop(_, _)
iterative_height_loop(queue, height) ==
    IF queue # <<>>
    THEN LET r == iterative_height_level(queue, Len(queue)) IN
         IF r.panic THEN [panic |-> TRUE, ret |-> height]
         ELSE iterative_height_loop(r.queue, height + 1)
    ELSE [panic |-> FALSE, ret |-> height]

\* Mutant: the level counter starts at 0, so the walk counts levels (nodes on
\* the longest path) instead of edges.
iterative_height_counts_levels(root) == iterative_height_loop(<<root>>, 0)

iterative_height(root) == iterative_height_loop(<<root>>, -1)

\* Mutant: an absent link has height 0, so the recursion counts levels.
RECURSIVE recursive_height_from_zero(_)
recursive_height_from_zero(root) ==
    IF is_none(root) THEN 0
    ELSE 1 + Max2(recursive_height_from_zero(unwrap(root).left),
                  recursive_height_from_zero(unwrap(root).right))

RECURSIVE recursive_height(_)
recursive_height(root) ==
    IF is_none(root) THEN -1
    ELSE 1 + Max2(recursive_height(unwrap(root).left),
                  recursive_height(unwrap(root).right))

-----------------------------------------------------------------------------
(* min / max *)

RECURSIVE iterative_min(_)
iterative_min(root) ==
    IF is_some(root)
    THEN LET current == unwrap(root) IN
         IF is_none(current.left) THEN Some(current.value)
         ELSE iterative_min(current.left)
    ELSE None

RECURSIVE recursive_min(_)
recursive_min(self) ==
    IF is_none(self.left) THEN Some(self.value)
    ELSE recursive_min(unwrap(self.left))

\* Mutant: the loop of iterative_min copied without turning left into right.
iterative_max_descends_left(root) == iterative_min(root)

RECURSIVE iterative_max(_)
iterative_max(root) ==
    IF is_some(root)
    THEN LET current == unwrap(root) IN
         IF is_none(current.right) THEN Some(current.value)
         ELSE iterative_max(current.right)
    ELSE None

RECURSIVE recursive_max(_)
recursive_max(self) ==
    IF is_none(self.right) THEN Some(self.value)
    ELSE recursive_max(unwrap(self.right))

-----------------------------------------------------------------------------
(* remove_min / remove_max: [panic, root, ret] *)

\* Mutant: the slot of the minimum is cleared, losing its right subtree.
RECURSIVE iterative_remove_min_loop_drops_child(_, _)
iterative_remove_min_loop_drops_child(root, cursor) ==
    LET link == slot(root, cursor) IN
    IF is_none(link) THEN [panic |-> TRUE, root |-> root, ret |-> None]
    ELSE IF is_some(unwrap(link).left)
         THEN iterative_remove_min_loop_drops_child(root, Append(cursor, "left"))
         ELSE LET node == unwrap(link) IN
              [panic |-> FALSE, root |-> write(root, cursor, None),
               ret |-> Some(node.value)]

RECURSIVE iterative_remove_min_loop(_, _)
iterative_remove_min_loop(root, cursor) ==
    LET link == slot(root, cursor) IN
    IF is_none(link) THEN [panic |-> TRUE, root |-> root, ret |-> None]
    ELSE IF is_some(unwrap(link).left)
         THEN iterative_remove_min_loop(root, Append(cursor, "left"))
         ELSE LET node == unwrap(link) IN
              [panic |-> FALSE, root |-> write(root, cursor, node.right),
               ret |-> Some(node.value)]

iterative_remove_min(root) ==
    IF is_some(root) THEN iterative_remove_min_loop(root, <<>>)
    ELSE [panic |-> FALSE, root |-> root, ret |-> None]

RECURSIVE recursive_remove_min(_)
recursive_remove_min(root) ==
    IF is_none(root) THEN [panic |-> TRUE, root |-> root, ret |-> None]
    ELSE IF is_some(unwrap(root).left)
         THEN LET r == recursive_remove_min(unwrap(root).left) IN
              [panic |-> r.panic,
               root |-> Some([unwrap(root) EXCEPT !.left = r.root]),
               ret |-> r.ret]
         ELSE LET node == unwrap(root) IN
              [panic |-> FALSE, root |-> node.right, ret |-> Some(node.value)]

RECURSIVE iterative_remove_max_loop(_, _)
iterative_remove_max_loop(root, cursor) ==
    LET link == slot(root, cursor) IN
    IF is_none(link) THEN [panic |-> TRUE, root |-> root, ret |-> None]
    ELSE IF is_some(unwrap(link).right)
         THEN iterative_remove_max_loop(root, Append(cursor, "right"))
         ELSE LET node == unwrap(link) IN
              [panic |-> FALSE, root |-> write(root, cursor, node.left),
               ret |-> Some(node.value)]

iterative_remove_max(root) ==
    IF is_some(root) THEN iterative_remove_max_loop(root, <<>>)
    ELSE [panic |-> FALSE, root |-> root, ret |-> None]

\* Mutant: the maximum is taken out together with its left subtree.
RECURSIVE recursive_remove_max_drops_child(_)
recursive_remove_max_drops_child(root) ==
    IF is_none(root) THEN [panic |-> TRUE, root |-> root, ret |-> None]
    ELSE IF is_some(unwrap(root).right)
         THEN LET r == recursive_remove_max_drops_child(unwrap(root).right) IN
              [panic |-> r.panic,
               root |-> Some([unwrap(root) EXCEPT !.right = r.root]),
               ret |-> r.ret]
         ELSE LET node == unwrap(root) IN
              [panic |-> FALSE, root |-> None, ret |-> Some(node.value)]

RECURSIVE recursive_remove_max(_)
recursive_remove_max(root) ==
    IF is_none(root) THEN [panic |-> TRUE, root |-> root, ret |-> None]
    ELSE IF is_some(unwrap(root).right)
         THEN LET r == recursive_remove_max(unwrap(root).right) IN
              [panic |-> r.panic,
               root |-> Some([unwrap(root) EXCEPT !.right = r.root]),
               ret |-> r.ret]
         ELSE LET node == unwrap(root) IN
              [panic |-> FALSE, root |-> node.left, ret |-> Some(node.value)]

-----------------------------------------------------------------------------
(* remove: [ok, panic, root] *)

\* Mutant: the two-children arm splices the in-order predecessor (the maximum
\* of the left subtree) instead of the successor.
iterative_remove_two_children_pred(root, cursor, current) ==
    LET r == iterative_remove_max(current.left) IN
    IF r.panic \/ is_none(r.ret) THEN [ok |-> FALSE, panic |-> TRUE, root |-> root]
    ELSE [ok |-> TRUE, panic |-> FALSE,
          root |-> write(root, cursor,
                         Some([current EXCEPT !.left = r.root,
                                              !.value = unwrap(r.ret)]))]

\* Mutant: the replacement value is taken from the wrong end of the right
\* subtree (its maximum).
iterative_remove_two_children_max(root, cursor, current) ==
    LET r == iterative_remove_max(current.right) IN
    IF r.panic \/ is_none(r.ret) THEN [ok |-> FALSE, panic |-> TRUE, root |-> root]
    ELSE [ok |-> TRUE, panic |-> FALSE,
          root |-> write(root, cursor,
                         Some([current EXCEPT !.right = r.root,
                                              !.value = unwrap(r.ret)]))]

\* The two-children arm: the node stays, its value becomes the minimum
\* extracted from its right subtree.
iterative_remove_two_children(root, cursor, current) ==
    LET r == iterative_remove_min(current.right) IN
    IF r.panic \/ is_none(r.ret) THEN [ok |-> FALSE, panic |-> TRUE, root |-> root]
    ELSE [ok |-> TRUE, panic |-> FALSE,
          root |-> write(root, cursor,
                         Some([current EXCEPT !.right = r.root,
                                              !.value = unwrap(r.ret)]))]

\* Mutant: the one-child arms clear the slot instead of moving the child
\* subtree into it.
RECURSIVE iterative_remove_loop_drops_child(_, _, _)
iterative_remove_loop_drops_child(root, cursor, value) ==
    LET link == slot(root, cursor) IN
    IF is_some(link)
    THEN LET current == unwrap(link) IN
         IF value < current.value
         THEN iterative_remove_loop_drops_child(root, Append(cursor, "left"), value)
         ELSE IF value > current.value
         THEN iterative_remove_loop_drops_child(root, Append(cursor, "right"), value)
         ELSE IF is_some(current.left) /\ is_some(current.right)
              THEN iterative_remove_two_children(root, cursor, current)
              ELSE [ok |-> TRUE, panic |-> FALSE, root |-> write(root, cursor, None)]
    ELSE [ok |-> FALSE, panic |-> FALSE, root |-> root]

RECURSIVE iterative_remove_loop(_, _, _)
iterative_remove_loop(root, cursor, value) ==
    LET link == slot(root, cursor) IN
    IF is_some(link)
    THEN LET current == unwrap(link) IN
         IF value < current.value
         THEN iterative_remove_loop(root, Append(cursor, "left"), value)
         ELSE IF value > current.value
         THEN iterative_remove_loop(root, Append(cursor, "right"), value)
         ELSE IF is_none(current.left) /\ is_none(current.right)
              THEN [ok |-> TRUE, panic |-> FALSE, root |-> write(root, cursor, None)]
         ELSE IF is_some(current.left) /\ is_none(current.right)
              THEN [ok |-> TRUE, panic |-> FALSE,
                    root |-> write(root, cursor, current.left)]
         ELSE IF is_none(current.left) /\ is_some(current.right)
              THEN [ok |-> TRUE, panic |-> FALSE,
                    root |-> write(root, cursor, current.right)]
         ELSE iterative_remove_two_children(root, cursor, current)
    ELSE [ok |-> FALSE, panic |-> FALSE, root |-> root]

iterative_remove(root, value) == iterative_remove_loop(root, <<>>, value)

\* Mutant: the two-children arm splices the in-order predecessor instead of
\* the successor.
recursive_remove_two_children_pred(node) ==
    LET r == recursive_remove_max(node.left) IN
    IF r.panic \/ is_none(r.ret) THEN [ok |-> FALSE, panic |-> TRUE, root |-> Some(node)]
    ELSE [ok |-> TRUE, panic |-> FALSE,
          root |-> Some([node EXCEPT !.left = r.root, !.value = unwrap(r.ret)])]

recursive_remove_two_children(node) ==
    LET r == recursive_remove_min(node.right) IN
    IF r.panic \/ is_none(r.ret) THEN [ok |-> FALSE, panic |-> TRUE, root |-> Some(node)]
    ELSE [ok |-> TRUE, panic |-> FALSE,
          root |-> Some([node EXCEPT !.right = r.root, !.value = unwrap(r.ret)])]

RECURSIVE recursive_remove(_, _)
recursive_remove(root, value) ==
    IF is_some(root)
    THEN LET node == unwrap(root) IN
         IF value < node.value
         THEN LET r == recursive_remove(node.left, value) IN
              [ok |-> r.ok, panic |-> r.panic,
               root |-> Some([node EXCEPT !.left = r.root])]
         ELSE IF value > node.value
         THEN LET r == recursive_remove(node.right, value) IN
              [ok |-> r.ok, panic |-> r.panic,
               root |-> Some([node EXCEPT !.right = r.root])]
         ELSE IF is_none(node.left) /\ is_none(node.right)
              THEN [ok |-> TRUE, panic |-> FALSE, root |-> None]
         ELSE IF is_some(node.left) /\ is_none(node.right)
              THEN [ok |-> TRUE, panic |-> FALSE, root |-> node.left]
         ELSE IF is_none(node.left) /\ is_some(node.right)
              THEN [ok |-> TRUE, panic |-> FALSE, root |-> node.right]
         ELSE recursive_remove_two_children(node)
    ELSE [ok |-> FALSE, panic |-> FALSE, root |-> root]

-----------------------------------------------------------------------------
(* traversals: the materialized Vec<&T>, as the sequence of values *)

\* Vec::pop: the last element is the top of the stack.
Top(stack) == stack[Len(stack)]
Pop(stack) == SubSeq(stack, 1, Len(stack) - 1)

RECURSIVE iterative_pre_order_loop(_, _)
iterative_pre_order_loop(stack, elements) ==
    LET popped == IF stack = <<>> THEN None ELSE Top(stack) IN
    IF is_some(popped)
    THEN LET current == unwrap(popped)
             s1 == IF is_some(current.right)
                   THEN Append(Pop(stack), current.right) ELSE Pop(stack)
             s2 == IF is_some(current.left) THEN Append(s1, current.left) ELSE s1
         IN  iterative_pre_order_loop(s2, Append(elements, current.value))
    ELSE elements

iterative_pre_order_vec(node) == iterative_pre_order_loop(<<node>>, <<>>)

RECURSIVE recursive_pre_order_vec(_, _)
recursive_pre_order_vec(node, elements) ==
    IF is_some(node)
    THEN LET n == unwrap(node)
             e1 == Append(elements, n.value)
             e2 == recursive_pre_order_vec(n.left, e1)
         IN  recursive_pre_order_vec(n.right, e2)
    ELSE elements

RECURSIVE iterative_in_order_loop(_, _, _)
iterative_in_order_loop(root, stack, elements) ==
    IF stack # <<>> \/ is_some(root)
    THEN IF is_some(root)
         THEN iterative_in_order_loop(unwrap(root).left, Append(stack, root), elements)
         ELSE LET node == unwrap(Top(stack)) IN
              iterative_in_order_loop(node.right, Pop(stack),
                                      Append(elements, node.value))
    ELSE elements

iterative_in_order_vec(root) == iterative_in_order_loop(root, <<>>, <<>>)

RECURSIVE recursive_in_order_vec(_, _)
recursive_in_order_vec(node, elements) ==
    IF is_some(node)
    THEN LET n == unwrap(node)
             e1 == recursive_in_order_vec(n.left, elements)
             e2 == Append(e1, n.value)
         IN  recursive_in_order_vec(n.right, e2)
    ELSE elements

\* Mutant: the first loop pushes the right child before the left child.
RECURSIVE iterative_post_order_fill_right_first(_, _)
iterative_post_order_fill_right_first(stack_one, stack_two) ==
    LET popped == IF stack_one = <<>> THEN None ELSE Top(stack_one) IN
    IF is_some(popped)
    THEN LET node == unwrap(popped)
             s1 == IF is_some(node.right)
                   THEN Append(Pop(stack_one), node.right) ELSE Pop(stack_one)
             s2 == IF is_some(node.left) THEN Append(s1, node.left) ELSE s1
         IN  iterative_post_order_fill_right_first(s2, Append(stack_two, node))
    ELSE stack_two

\* First loop: fill stack_two.  Second loop: pop stack_two into elements.
RECURSIVE iterative_post_order_fill(_, _)
iterative_post_order_fill(stack_one, stack_two) ==
    LET popped == IF stack_one = <<>> THEN None ELSE Top(stack_one) IN
    IF is_some(popped)
    THEN LET node == unwrap(popped)
             s1 == IF is_some(node.left)
                   THEN Append(Pop(stack_one), node.left) ELSE Pop(stack_one)
             s2 == IF is_some(node.right) THEN Append(s1, node.right) ELSE s1
         IN  iterative_post_order_fill(s2, Append(stack_two, node))
    ELSE stack_two

RECURSIVE iterative_post_order_drain(_, _)
iterative_post_order_drain(stack_two, elements) ==
    IF stack_two # <<>>
    THEN iterative_post_order_drain(Pop(stack_two),
                                    Append(elements, Top(stack_two).value))
    ELSE elements

iterative_post_order_vec(root) ==
    iterative_post_order_drain(iterative_post_order_fill(<<root>>, <<>>), <<>>)

RECURSIVE recursive_post_order_vec(_, _)
recursive_post_order_vec(node, elements) ==
    IF is_some(node)
    THEN LET n == unwrap(node)
             e1 == recursive_post_order_vec(n.left, elements)
             e2 == recursive_post_order_vec(n.right, e1)
         IN  Append(e2, n.value)
    ELSE elements

RECURSIVE iterative_level_order_loop(_, _)
iterative_level_order_loop(deque, elements) ==
    LET popped == IF deque = <<>> THEN None ELSE Head(deque) IN
    IF is_some(popped)
    THEN LET current == unwrap(popped)
             d1 == IF is_some(current.left)
                   THEN Append(Tail(deque), current.left) ELSE Tail(deque)
             d2 == IF is_some(current.right) THEN Append(d1, current.right) ELSE d1
         IN  iterative_level_order_loop(d2, Append(elements, current.value))
    ELSE elements

iterative_level_order_vec(root) == iterative_level_order_loop(<<root>>, <<>>)

RECURSIVE recursive_current_level(_, _, _)
recursive_current_level(root, elements, level) ==
    IF is_some(root)
    THEN IF level < 1 THEN elements
         ELSE IF level = 1 THEN Append(elements, unwrap(root).value)
         ELSE LET e1 == recursive_current_level(unwrap(root).left, elements, level - 1)
              IN  recursive_current_level(unwrap(root).right, e1, level - 1)
    ELSE elements

\* for i in 1..=height + 1
RECURSIVE recursive_level_order_for(_, _, _, _)
recursive_level_order_for(root, elements, i, height) ==
    IF i <= height + 1
    THEN recursive_level_order_for(root, recursive_current_level(root, elements, i),
                                   i + 1, height)
    ELSE elements

recursive_level_order_vec(root, elements) ==
    recursive_level_order_for(root, elements, 1, recursive_height(root))

-----------------------------------------------------------------------------
(* consuming traversals: the tree is moved in, the values are moved out *)

iterative_consume_pre_order_vec(node) ==
    LET RECURSIVE loop(_, _)
        loop(stack, elements) ==
            LET popped == IF stack = <<>> THEN None ELSE Top(stack) IN
            IF is_some(popped)
            THEN LET current == unwrap(popped)
                     s1 == IF is_some(current.right)
                           THEN Append(Pop(stack), current.right) ELSE Pop(stack)
                     s2 == IF is_some(current.left) THEN Append(s1, current.left) ELSE s1
                 IN  loop(s2, Append(elements, current.value))
            ELSE elements
    IN  loop(<<node>>, <<>>)

RECURSIVE recursive_consume_pre_order_vec(_, _)
recursive_consume_pre_order_vec(node, elements) ==
    IF is_some(node)
    THEN LET n == unwrap(node)
             e1 == Append(elements, n.value)
             e2 == recursive_consume_pre_order_vec(n.left, e1)
         IN  recursive_consume_pre_order_vec(n.right, e2)
    ELSE elements

\* The stack holds links; a node with a left child goes back on the stack
\* with that child taken out of it (current.left.take()).
iterative_consume_in_order_vec(root) ==
    LET RECURSIVE loop(_, _)
        loop(stack, elements) ==
            IF stack # <<>>
            THEN LET popped == Top(stack) IN
                 IF is_some(popped)
                 THEN LET current == unwrap(popped) IN
                      IF is_some(current.left)
                      THEN loop(Append(Append(Pop(stack),
                                              Some([current EXCEPT !.left = None])),
                                       current.left),
                                elements)
                      ELSE loop(Append(Pop(stack), current.right),
                                Append(elements, current.value))
                 ELSE loop(Pop(stack), elements)
            ELSE elements
    IN  loop(<<root>>, <<>>)

\* Mutant: the left child is pushed without being taken out of current
\* (current.left.clone() in place of current.left.take()).
iterative_consume_in_order_step_keeps_left(stack, elements) ==
    LET popped == Top(stack) IN
    IF is_some(popped)
    THEN LET current == unwrap(popped) IN
         IF is_some(current.left)
         THEN [stack |-> Append(Append(Pop(stack), Some(current)), current.left),
               elements |-> elements]
         ELSE [stack |-> Append(Pop(stack), current.right),
               elements |-> Append(elements, current.value)]
    ELSE [stack |-> Pop(stack), elements |-> elements]

\* One iteration of the loop of iterative_consume_in_order_vec, entered with
\* a stack that is not empty:
\* if let Some(mut current) = stack.pop().unwrap() { ... }
iterative_consume_in_order_step(stack, elements) ==
    LET popped == Top(stack) IN
    IF is_some(popped)
    THEN LET current == unwrap(popped) IN
         IF is_some(current.left)
         THEN [stack |-> Append(Append(Pop(stack),
                                       Some([current EXCEPT !.left = None])),
                                current.left),
               elements |-> elements]
         ELSE [stack |-> Append(Pop(stack), current.right),
               elements |-> Append(elements, current.value)]
    ELSE [stack |-> Pop(stack), elements |-> elements]

RECURSIVE recursive_consume_in_order_vec(_, _)
recursive_consume_in_order_vec(node, elements) ==
    IF is_some(node)
    THEN LET n == unwrap(node)
             e1 == recursive_consume_in_order_vec(n.left, elements)
             e2 == Append(e1, n.value)
         IN  recursive_consume_in_order_vec(n.right, e2)
    ELSE elements

\* stack_two receives the nodes with both children taken out.
iterative_consume_post_order_vec(root) ==
    LET RECURSIVE fill(_, _)
        fill(stack_one, stack_two) ==
            LET popped == IF stack_one = <<>> THEN None ELSE Top(stack_one) IN
            IF is_some(popped)
            THEN LET node == unwrap(popped)
                     s1 == IF is_some(node.left)
                           THEN Append(Pop(stack_one), node.left) ELSE Pop(stack_one)
                     s2 == IF is_some(node.right) THEN Append(s1, node.right) ELSE s1
                 IN  fill(s2, Append(stack_two,
                                     [node EXCEPT !.left = None, !.right = None]))
            ELSE stack_two
        RECURSIVE drain(_, _)
        drain(stack_two, elements) ==
            IF stack_two # <<>>
            THEN drain(Pop(stack_two), Append(elements, Top(stack_two).value))
            ELSE elements
    IN  drain(fill(<<root>>, <<>>), <<>>)

RECURSIVE recursive_consume_post_order_vec(_, _)
recursive_consume_post_order_vec(node, elements) ==
    IF is_some(node)
    THEN LET n == unwrap(node)
             e1 == recursive_consume_post_order_vec(n.left, elements)
             e2 == recursive_consume_post_order_vec(n.right, e1)
         IN  Append(e2, n.value)
    ELSE elements

iterative_consume_level_order_vec(root) ==
    LET RECURSIVE loop(_, _)
        loop(deque, elements) ==
            LET popped == IF deque = <<>> THEN None ELSE Head(deque) IN
            IF is_some(popped)
            THEN LET current == unwrap(popped)
                     d1 == IF is_some(current.left)
                           THEN Append(Tail(deque), current.left) ELSE Tail(deque)
                     d2 == IF is_some(current.right) THEN Append(d1, current.right) ELSE d1
                 IN  loop(d2, Append(elements, current.value))
            ELSE elements
    IN  loop(<<root>>, <<>>)

\* ptr::read copies the value of each node found at distance `level`.
RECURSIVE write_level_into_vec(_, _, _)
write_level_into_vec(root, elements, level) ==
    IF is_some(root)
    THEN LET node == unwrap(root) IN
         IF level = 0 THEN Append(elements, node.value)
         ELSE LET e1 == write_level_into_vec(node.left, elements, level - 1)
              IN  write_level_into_vec(node.right, e1, level - 1)
    ELSE elements

\* Mutant: the node is destructured without mem::forget(value), so the value
\* is dropped where the binding goes out of scope.
RECURSIVE dealloc_boxes_without_forget(_)
dealloc_boxes_without_forget(root) ==
    IF is_some(root)
    THEN LET node == unwrap(root)
             l == dealloc_boxes_without_forget(node.left)
             r == dealloc_boxes_without_forget(node.right)
         IN  [freed |-> <<node.value>> \o l.freed \o r.freed,
              forgotten |-> l.forgotten \o r.forgotten,
              dropped |-> l.dropped \o r.dropped \o <<node.value>>]
    ELSE [freed |-> <<>>, forgotten |-> <<>>, dropped |-> <<>>]

\* What becomes of the tree: the boxes freed (each named by the value of its
\* node), the values forgotten, and the values whose destructor runs.
\* let Node { value, left, right } = *node; mem::forget(value);
\* dealloc_boxes(left); dealloc_boxes(right)
RECURSIVE dealloc_boxes(_)
dealloc_boxes(root) ==
    IF is_some(root)
    THEN LET node == unwrap(root)
             l == dealloc_boxes(node.left)
             r == dealloc_boxes(node.right)
         IN  [freed |-> <<node.value>> \o l.freed \o r.freed,
              forgotten |-> <<node.value>> \o l.forgotten \o r.forgotten,
              dropped |-> l.dropped \o r.dropped]
    ELSE [freed |-> <<>>, forgotten |-> <<>>, dropped |-> <<>>]

\* Mutant: for i in 0..height, one level short.
recursive_consume_level_order_vec_short(root, elements) ==
    LET height == recursive_height(root)
        RECURSIVE for(_, _)
        for(i, e) ==
            IF i < height THEN for(i + 1, write_level_into_vec(root, e, i)) ELSE e
    IN  for(0, elements)

\* for i in 0..height + 1; dealloc_boxes then frees the nodes without
\* touching the values again.
recursive_consume_level_order_vec(root, elements) ==
    LET height == recursive_height(root)
        RECURSIVE for(_, _)
        for(i, e) ==
            IF i < height + 1 THEN for(i + 1, write_level_into_vec(root, e, i)) ELSE e
    IN  for(0, elements)

-----------------------------------------------------------------------------
(* IterativeBST: a container is [root, size] *)

IterativeBST_new == [root |-> None, size |-> 0]

IterativeBST_size(self) == self.size
IterativeBST_is_empty(self) == self.size = 0
IterativeBST_is_not_empty(self) == self.size # 0

\* Mutant: the counter is bumped whatever the node algebra reported.
IterativeBST_insert_always_counts(self, value) ==
    LET r == iterative_insert(self.root, value) IN
    [root |-> r.root, size |-> self.size + 1]

IterativeBST_insert(self, value) ==
    LET r == iterative_insert(self.root, value) IN
    IF r.ok THEN [root |-> r.root, size |-> self.size + 1]
    ELSE [root |-> r.root, size |-> self.size]

IterativeBST_contains(self, value) == iterative_contains(self.root, value)

\* Mutant: the counter is decremented whatever the node algebra reported.
IterativeBST_remove_always_counts(self, value) ==
    LET r == iterative_remove(self.root, value) IN
    [bst |-> [root |-> r.root, size |-> self.size - 1], panic |-> r.panic]

\* [bst, panic]
IterativeBST_remove(self, value) ==
    LET r == iterative_remove(self.root, value) IN
    [bst |-> IF r.ok THEN [root |-> r.root, size |-> self.size - 1]
             ELSE [root |-> r.root, size |-> self.size],
     panic |-> r.panic]

IterativeBST_retrieve(self, value) == iterative_retrieve(self.root, value)

IterativeBST_retrieve_as_mut(self, value) == iterative_retrieve_as_mut(self.root, value)

\* Mutant: height hands the root link to the node function without looking
\* at it first.
IterativeBST_height_unguarded(self) ==
    LET r == iterative_height(self.root) IN
    [panic |-> r.panic, ret |-> IF r.panic THEN None ELSE Some(r.ret)]

\* [panic, ret]: root.as_ref().map(|_| iterative_height(&root))
IterativeBST_height(self) ==
    IF is_some(self.root)
    THEN LET r == iterative_height(self.root) IN
         [panic |-> r.panic, ret |-> IF r.panic THEN None ELSE Some(r.ret)]
    ELSE [panic |-> FALSE, ret |-> None]

IterativeBST_min(self) == iterative_min(self.root)
IterativeBST_max(self) == iterative_max(self.root)

\* [bst, panic, ret]
IterativeBST_remove_min(self) ==
    LET r == iterative_remove_min(self.root) IN
    [bst |-> IF is_some(r.ret) THEN [root |-> r.root, size |-> self.size - 1]
             ELSE [root |-> r.root, size |-> self.size],
     panic |-> r.panic, ret |-> r.ret]

IterativeBST_remove_max(self) ==
    LET r == iterative_remove_max(self.root) IN
    [bst |-> IF is_some(r.ret) THEN [root |-> r.root, size |-> self.size - 1]
             ELSE [root |-> r.root, size |-> self.size],
     panic |-> r.panic, ret |-> r.ret]

IterativeBST_pre_order_vec(self) == iterative_pre_order_vec(self.root)
IterativeBST_in_order_vec(self) == iterative_in_order_vec(self.root)
IterativeBST_asc_order_vec(self) == IterativeBST_in_order_vec(self)
IterativeBST_post_order_vec(self) == iterative_post_order_vec(self.root)
IterativeBST_level_order_vec(self) == iterative_level_order_vec(self.root)

\* Mutant: equality compares the trees node by node (pre-order), not their
\* ascending sequences.
IterativeBST_eq_structural(self, other) ==
    IterativeBST_pre_order_vec(self) = IterativeBST_pre_order_vec(other)

IterativeBST_eq(self, other) ==
    IterativeBST_asc_order_vec(self) = IterativeBST_asc_order_vec(other)

\* for value in iter.into_iter() { self.insert(value) }
RECURSIVE IterativeBST_extend(_, _)
IterativeBST_extend(self, values) ==
    IF values = <<>> THEN self
    ELSE IterativeBST_extend(IterativeBST_insert(self, Head(values)), Tail(values))

IterativeBST_from_iter(values) == IterativeBST_extend(IterativeBST_new, values)

\* From<Vec<T>>: its own loop of inserts over the vector.
\* Mutant: the loop gives up at the first value that is already stored.
RECURSIVE IterativeBST_from_vec_loop_stops(_, _)
IterativeBST_from_vec_loop_stops(bst, vec) ==
    IF vec = <<>> THEN bst
    ELSE IF IterativeBST_contains(bst, Head(vec)) THEN bst
    ELSE IterativeBST_from_vec_loop_stops(IterativeBST_insert(bst, Head(vec)), Tail(vec))

RECURSIVE IterativeBST_from_vec_loop(_, _)
IterativeBST_from_vec_loop(bst, vec) ==
    IF vec = <<>> THEN bst
    ELSE IterativeBST_from_vec_loop(IterativeBST_insert(bst, Head(vec)), Tail(vec))

IterativeBST_from_vec(vec) == IterativeBST_from_vec_loop(IterativeBST_new, vec)

\* From<&[T]>: inserts a clone of each element of the slice.
RECURSIVE IterativeBST_from_slice_loop(_, _)
IterativeBST_from_slice_loop(bst, slice) ==
    IF slice = <<>> THEN bst
    ELSE IterativeBST_from_slice_loop(IterativeBST_insert(bst, Head(slice)), Tail(slice))

IterativeBST_from_slice(slice) == IterativeBST_from_slice_loop(IterativeBST_new, slice)

-----------------------------------------------------------------------------
(* RecursiveBST *)

RecursiveBST_new == [root |-> None, size |-> 0]

RecursiveBST_size(self) == self.size
RecursiveBST_is_empty(self) == self.size = 0
RecursiveBST_is_not_empty(self) == self.size # 0

\* Mutant: the counter is bumped whatever recursive_insert reported.
RecursiveBST_insert_always_counts(self, value) ==
    IF is_none(self.root)
    THEN [root |-> Some(Node_new(value)), size |-> self.size + 1]
    ELSE LET r == recursive_insert(unwrap(self.root), value) IN
         [root |-> Some(r.node), size |-> self.size + 1]

RecursiveBST_insert(self, value) ==
    IF is_none(self.root)
    THEN [root |-> Some(Node_new(value)), size |-> self.size + 1]
    ELSE LET r == recursive_insert(unwrap(self.root), value) IN
         IF r.ok THEN [root |-> Some(r.node), size |-> self.size + 1]
         ELSE [root |-> Some(r.node), size |-> self.size]

RecursiveBST_contains(self, value) ==
    IF is_none(self.root) THEN FALSE
    ELSE recursive_contains(unwrap(self.root), value)

RecursiveBST_remove(self, value) ==
    LET r == recursive_remove(self.root, value) IN
    [bst |-> IF r.ok THEN [root |-> r.root, size |-> self.size - 1]
             ELSE [root |-> r.root, size |-> self.size],
     panic |-> r.panic]

RecursiveBST_retrieve(self, value) ==
    IF is_none(self.root) THEN None
    ELSE recursive_retrieve(unwrap(self.root), value)

RecursiveBST_retrieve_as_mut(self, value) ==
    IF is_none(self.root) THEN None
    ELSE recursive_retrieve_as_mut(unwrap(self.root), value)

RecursiveBST_height(self) ==
    IF is_some(self.root)
    THEN [panic |-> FALSE, ret |-> Some(recursive_height(self.root))]
    ELSE [panic |-> FALSE, ret |-> None]

RecursiveBST_min(self) ==
    IF is_none(self.root) THEN None ELSE recursive_min(unwrap(self.root))

RecursiveBST_max(self) ==
    IF is_none(self.root) THEN None ELSE recursive_max(unwrap(self.root))

\* Mutant: the container hands an absent root to the node function.
RecursiveBST_remove_min_unguarded(self) ==
    LET r == recursive_remove_min(self.root) IN
    [bst |-> IF is_some(r.ret) THEN [root |-> r.root, size |-> self.size - 1]
             ELSE [root |-> r.root, size |-> self.size],
     panic |-> r.panic, ret |-> r.ret]

RecursiveBST_remove_min(self) ==
    LET r == IF is_none(self.root)
             THEN [panic |-> FALSE, root |-> self.root, ret |-> None]
             ELSE recursive_remove_min(self.root) IN
    [bst |-> IF is_some(r.ret) THEN [root |-> r.root, size |-> self.size - 1]
             ELSE [root |-> r.root, size |-> self.size],
     panic |-> r.panic, ret |-> r.ret]

RecursiveBST_remove_max(self) ==
    LET r == IF is_none(self.root)
             THEN [panic |-> FALSE, root |-> self.root, ret |-> None]
             ELSE recursive_remove_max(self.root) IN
    [bst |-> IF is_some(r.ret) THEN [root |-> r.root, size |-> self.size - 1]
             ELSE [root |-> r.root, size |-> self.size],
     panic |-> r.panic, ret |-> r.ret]

RecursiveBST_pre_order_vec(self) == recursive_pre_order_vec(self.root, <<>>)
RecursiveBST_in_order_vec(self) == recursive_in_order_vec(self.root, <<>>)
RecursiveBST_asc_order_vec(self) == recursive_in_order_vec(self.root, <<>>)
RecursiveBST_post_order_vec(self) == recursive_post_order_vec(self.root, <<>>)
RecursiveBST_level_order_vec(self) == recursive_level_order_vec(self.root, <<>>)

RecursiveBST_eq(self, other) ==
    RecursiveBST_asc_order_vec(self) = RecursiveBST_asc_order_vec(other)

RECURSIVE RecursiveBST_extend(_, _)
RecursiveBST_extend(self, values) ==
    IF values = <<>> THEN self
    ELSE RecursiveBST_extend(RecursiveBST_insert(self, Head(values)), Tail(values))

RecursiveBST_from_iter(values) == RecursiveBST_extend(RecursiveBST_new, values)

RECURSIVE RecursiveBST_from_vec_loop(_, _)
RecursiveBST_from_vec_loop(bst, vec) ==
    IF vec = <<>> THEN bst
    ELSE RecursiveBST_from_vec_loop(RecursiveBST_insert(bst, Head(vec)), Tail(vec))

RecursiveBST_from_vec(vec) == RecursiveBST_from_vec_loop(RecursiveBST_new, vec)

RECURSIVE RecursiveBST_from_slice_loop(_, _)
RecursiveBST_from_slice_loop(bst, slice) ==
    IF slice = <<>> THEN bst
    ELSE RecursiveBST_from_slice_loop(RecursiveBST_insert(bst, Head(slice)), Tail(slice))

RecursiveBST_from_slice(slice) == RecursiveBST_from_slice_loop(RecursiveBST_new, slice)

-----------------------------------------------------------------------------
(* Traversal iterators: every method materializes a vector and hands out   *)
(* its std::vec::IntoIter.  order names the method: "asc" is               *)
(* asc_order_iter / into_asc_order_iter, "pre" pre_order_iter, and so on.   *)

Orders == {"asc", "pre", "in", "post", "level"}

\* Mutant: post_order_iter materializes the pre-order vector.
IterativeBST_iter_post_as_pre(self, order) ==
    CASE order = "asc" -> iterative_in_order_vec(self.root)
      [] order = "pre" -> iterative_pre_order_vec(self.root)
      [] order = "in" -> iterative_in_order_vec(self.root)
      [] order = "post" -> iterative_pre_order_vec(self.root)
      [] order = "level" -> iterative_level_order_vec(self.root)

\* The vector behind asc_order_iter (= in_order_iter), pre_order_iter,
\* in_order_iter, post_order_iter, level_order_iter.
IterativeBST_iter(self, order) ==
    CASE order = "asc" -> iterative_in_order_vec(self.root)
      [] order = "pre" -> iterative_pre_order_vec(self.root)
      [] order = "in" -> iterative_in_order_vec(self.root)
      [] order = "post" -> iterative_post_order_vec(self.root)
      [] order = "level" -> iterative_level_order_vec(self.root)

\* The vector behind into_asc_order_iter (= into_in_order_iter) and the other
\* four consuming methods.
IterativeBST_into_iter(self, order) ==
    CASE order = "asc" -> iterative_consume_in_order_vec(self.root)
      [] order = "pre" -> iterative_consume_pre_order_vec(self.root)
      [] order = "in" -> iterative_consume_in_order_vec(self.root)
      [] order = "post" -> iterative_consume_post_order_vec(self.root)
      [] order = "level" -> iterative_consume_level_order_vec(self.root)

RecursiveBST_iter(self, order) ==
    CASE order = "asc" -> recursive_in_order_vec(self.root, <<>>)
      [] order = "pre" -> recursive_pre_order_vec(self.root, <<>>)
      [] order = "in" -> recursive_in_order_vec(self.root, <<>>)
      [] order = "post" -> recursive_post_order_vec(self.root, <<>>)
      [] order = "level" -> recursive_level_order_vec(self.root, <<>>)

RecursiveBST_into_iter(self, order) ==
    CASE order = "asc" -> recursive_consume_in_order_vec(self.root, <<>>)
      [] order = "pre" -> recursive_consume_pre_order_vec(self.root, <<>>)
      [] order = "in" -> recursive_consume_in_order_vec(self.root, <<>>)
      [] order = "post" -> recursive_consume_post_order_vec(self.root, <<>>)
      [] order = "level" -> recursive_consume_level_order_vec(self.root, <<>>)

\* std::vec::IntoIter::next: the front element, or None for good once the
\* vector is used up.
IntoIter_next(items) ==
    IF items = <<>> THEN [ret |-> None, items |-> <<>>]
    ELSE [ret |-> Some(Head(items)), items |-> Tail(items)]

-----------------------------------------------------------------------------
(* The program: both containers receive the same calls *)

Range(seq) == {seq[i] : i \in 1..Len(seq)}
SeqsUpTo(S, n) == UNION {[1..k -> S] : k \in 0..n}

\* No iterator is held.  `earlier` remembers, of the last borrowing iterator
\* that was exhausted and dropped, which traversal it was and how many values
\* it had yielded.
NoIterator ==
    [kind |-> "none", order |-> "none",
     rest |-> [iter |-> <<>>, rec |-> <<>>],
     yielded |-> [iter |-> <<>>, rec |-> <<>>],
     earlier |-> None]

\* No call of iterative_consume_in_order_vec is running.
NoFrame == [pc |-> "none", stack |-> <<>>, elements |-> <<>>]

\* What is left of a container that a consuming call took by value.
Moved == [moved |-> TRUE]

mainVars == <<iter, rec, before, last, contents, panicked>>
buildVars == <<vecA, vecB, bstA, bstB, how, cmp, frame>>

Init ==
    /\ iter = IterativeBST_new
    /\ rec = RecursiveBST_new
    /\ before = [iter |-> IterativeBST_new, rec |-> RecursiveBST_new]
    /\ last = [op |-> "new", arg |-> <<>>, ret |-> [iter |-> None, rec |-> None]]
    /\ contents = {}
    /\ panicked = FALSE
    /\ vecA = <<>>
    /\ vecB = <<>>
    /\ bstA = [iter |-> IterativeBST_new, rec |-> RecursiveBST_new]
    /\ bstB = [iter |-> IterativeBST_new, rec |-> RecursiveBST_new]
    /\ how = "none"
    /\ cmp = None
    /\ iterator = NoIterator
    /\ frame = NoFrame

Insert(value) ==
    /\ ~panicked
    /\ iter' = IterativeBST_insert(iter, value)
    /\ rec' = RecursiveBST_insert(rec, value)
    /\ before' = [iter |-> iter, rec |-> rec]
    /\ last' = [op |-> "insert", arg |-> <<value>>, ret |-> [iter |-> None, rec |-> None]]
    /\ contents' = contents \cup {value}
    /\ UNCHANGED panicked
    /\ UNCHANGED buildVars
    /\ UNCHANGED iterator

Remove(value) ==
    /\ ~panicked
    /\ LET i == IterativeBST_remove(iter, value)
           r == RecursiveBST_remove(rec, value)
       IN  /\ iter' = i.bst
           /\ rec' = r.bst
           /\ panicked' = (i.panic \/ r.panic)
    /\ before' = [iter |-> iter, rec |-> rec]
    /\ last' = [op |-> "remove", arg |-> <<value>>, ret |-> [iter |-> None, rec |-> None]]
    /\ contents' = contents \ {value}
    /\ UNCHANGED buildVars
    /\ UNCHANGED iterator

RemoveMin ==
    /\ ~panicked
    /\ LET i == IterativeBST_remove_min(iter)
           r == RecursiveBST_remove_min(rec)
       IN  /\ iter' = i.bst
           /\ rec' = r.bst
           /\ panicked' = (i.panic \/ r.panic)
           /\ last' = [op |-> "remove_min", arg |-> <<>>,
                       ret |-> [iter |-> i.ret, rec |-> r.ret]]
           /\ contents' = contents \ Range(i.ret)
    /\ before' = [iter |-> iter, rec |-> rec]
    /\ UNCHANGED buildVars
    /\ UNCHANGED iterator

RemoveMax ==
    /\ ~panicked
    /\ LET i == IterativeBST_remove_max(iter)
           r == RecursiveBST_remove_max(rec)
       IN  /\ iter' = i.bst
           /\ rec' = r.bst
           /\ panicked' = (i.panic \/ r.panic)
           /\ last' = [op |-> "remove_max", arg |-> <<>>,
                       ret |-> [iter |-> i.ret, rec |-> r.ret]]
           /\ contents' = contents \ Range(i.ret)
    /\ before' = [iter |-> iter, rec |-> rec]
    /\ UNCHANGED buildVars
    /\ UNCHANGED iterator

Extend(values) ==
    /\ ~panicked
    /\ iter' = IterativeBST_extend(iter, values)
    /\ rec' = RecursiveBST_extend(rec, values)
    /\ before' = [iter |-> iter, rec |-> rec]
    /\ last' = [op |-> "extend", arg |-> values, ret |-> [iter |-> None, rec |-> None]]
    /\ contents' = contents \cup Range(values)
    /\ UNCHANGED panicked
    /\ UNCHANGED buildVars
    /\ UNCHANGED iterator

Contains(value) ==
    /\ ~panicked
    /\ before' = [iter |-> iter, rec |-> rec]
    /\ last' = [op |-> "contains", arg |-> <<value>>,
                ret |-> [iter |-> Some(IterativeBST_contains(iter, value)),
                         rec |-> Some(RecursiveBST_contains(rec, value))]]
    /\ UNCHANGED <<iter, rec, contents, panicked>>
    /\ UNCHANGED buildVars
    /\ UNCHANGED iterator

Retrieve(value) ==
    /\ ~panicked
    /\ before' = [iter |-> iter, rec |-> rec]
    /\ last' = [op |-> "retrieve", arg |-> <<value>>,
                ret |-> [iter |-> IterativeBST_retrieve(iter, value),
                         rec |-> RecursiveBST_retrieve(rec, value)]]
    /\ UNCHANGED <<iter, rec, contents, panicked>>
    /\ UNCHANGED buildVars
    /\ UNCHANGED iterator

Height ==
    /\ ~panicked
    /\ LET i == IterativeBST_height(iter)
           r == RecursiveBST_height(rec)
       IN  /\ panicked' = (i.panic \/ r.panic)
           /\ last' = [op |-> "height", arg |-> <<>>,
                       ret |-> [iter |-> i.ret, rec |-> r.ret]]
    /\ before' = [iter |-> iter, rec |-> rec]
    /\ UNCHANGED <<iter, rec, contents>>
    /\ UNCHANGED buildVars
    /\ UNCHANGED iterator

Min ==
    /\ ~panicked
    /\ before' = [iter |-> iter, rec |-> rec]
    /\ last' = [op |-> "min", arg |-> <<>>,
                ret |-> [iter |-> IterativeBST_min(iter),
                         rec |-> RecursiveBST_min(rec)]]
    /\ UNCHANGED <<iter, rec, contents, panicked>>
    /\ UNCHANGED buildVars
    /\ UNCHANGED iterator

Max ==
    /\ ~panicked
    /\ before' = [iter |-> iter, rec |-> rec]
    /\ last' = [op |-> "max", arg |-> <<>>,
                ret |-> [iter |-> IterativeBST_max(iter),
                         rec |-> RecursiveBST_max(rec)]]
    /\ UNCHANGED <<iter, rec, contents, panicked>>
    /\ UNCHANGED buildVars
    /\ UNCHANGED iterator

Next ==
    \/ \E value \in Values : Insert(value)
    \/ \E value \in Values : Remove(value)
    \/ RemoveMin
    \/ RemoveMax
    \/ \E value \in Values : Contains(value)
    \/ \E value \in Values : Retrieve(value)
    \/ Height
    \/ Min
    \/ Max

Spec == Init /\ [][Next]_vars

\* The same program with bulk insertion, over a smaller range of values.
ExtendValues == 1..ExtendVal

ExtendNext ==
    \/ \E value \in ExtendValues : Insert(value)
    \/ \E value \in ExtendValues : Remove(value)
    \/ RemoveMin
    \/ RemoveMax
    \/ \E values \in SeqsUpTo(ExtendValues, MaxExtend) : Extend(values)

ExtendSpec == Init /\ [][ExtendNext]_vars

-----------------------------------------------------------------------------
(* Construction: two containers of each strategy built from two inputs *)

BuildValues == 1..BuildVal

BuildInit ==
    /\ iter = IterativeBST_new
    /\ rec = RecursiveBST_new
    /\ before = [iter |-> IterativeBST_new, rec |-> RecursiveBST_new]
    /\ last = [op |-> "new", arg |-> <<>>, ret |-> [iter |-> None, rec |-> None]]
    /\ contents = {}
    /\ panicked = FALSE
    /\ vecA \in SeqsUpTo(BuildValues, BuildLen)
    /\ vecB \in SeqsUpTo(BuildValues, BuildLen)
    /\ bstA = [iter |-> IterativeBST_new, rec |-> RecursiveBST_new]
    /\ bstB = [iter |-> IterativeBST_new, rec |-> RecursiveBST_new]
    /\ how = "none"
    /\ cmp = None
    /\ iterator = NoIterator
    /\ frame = NoFrame

FromVec ==
    /\ how = "none"
    /\ bstA' = [iter |-> IterativeBST_from_vec(vecA), rec |-> RecursiveBST_from_vec(vecA)]
    /\ bstB' = [iter |-> IterativeBST_from_vec(vecB), rec |-> RecursiveBST_from_vec(vecB)]
    /\ how' = "from_vec"
    /\ UNCHANGED <<vecA, vecB, cmp, frame>>
    /\ UNCHANGED mainVars
    /\ UNCHANGED iterator

FromSlice ==
    /\ how = "none"
    /\ bstA' = [iter |-> IterativeBST_from_slice(vecA),
                rec |-> RecursiveBST_from_slice(vecA)]
    /\ bstB' = [iter |-> IterativeBST_from_slice(vecB),
                rec |-> RecursiveBST_from_slice(vecB)]
    /\ how' = "from_slice"
    /\ UNCHANGED <<vecA, vecB, cmp, frame>>
    /\ UNCHANGED mainVars
    /\ UNCHANGED iterator

FromIter ==
    /\ how = "none"
    /\ bstA' = [iter |-> IterativeBST_from_iter(vecA),
                rec |-> RecursiveBST_from_iter(vecA)]
    /\ bstB' = [iter |-> IterativeBST_from_iter(vecB),
                rec |-> RecursiveBST_from_iter(vecB)]
    /\ how' = "from_iter"
    /\ UNCHANGED <<vecA, vecB, cmp, frame>>
    /\ UNCHANGED mainVars
    /\ UNCHANGED iterator

\* let mut bst = new(); bst.extend(vec)
ExtendNew ==
    /\ how = "none"
    /\ bstA' = [iter |-> IterativeBST_extend(IterativeBST_new, vecA),
                rec |-> RecursiveBST_extend(RecursiveBST_new, vecA)]
    /\ bstB' = [iter |-> IterativeBST_extend(IterativeBST_new, vecB),
                rec |-> RecursiveBST_extend(RecursiveBST_new, vecB)]
    /\ how' = "extend"
    /\ UNCHANGED <<vecA, vecB, cmp, frame>>
    /\ UNCHANGED mainVars
    /\ UNCHANGED iterator

\* bstA == bstB, in each strategy
Compare ==
    /\ how # "none"
    /\ cmp = None
    /\ cmp' = Some([iter |-> IterativeBST_eq(bstA.iter, bstB.iter),
                    rec |-> RecursiveBST_eq(bstA.rec, bstB.rec)])
    /\ UNCHANGED <<vecA, vecB, bstA, bstB, how, frame>>
    /\ UNCHANGED mainVars
    /\ UNCHANGED iterator

BuildNext == FromVec \/ FromSlice \/ FromIter \/ ExtendNew \/ Compare

BuildSpec == BuildInit /\ [][BuildNext]_vars

-----------------------------------------------------------------------------
(* The traversal examples: the values 1..ScenarioLen inserted in some order *)

ScenarioInit ==
    /\ iter = IterativeBST_new
    /\ rec = RecursiveBST_new
    /\ before = [iter |-> IterativeBST_new, rec |-> RecursiveBST_new]
    /\ last = [op |-> "new", arg |-> <<>>, ret |-> [iter |-> None, rec |-> None]]
    /\ contents = {}
    /\ panicked = FALSE
    /\ vecA \in Permutations(1..ScenarioLen)
    /\ vecB = <<>>
    /\ bstA = [iter |-> IterativeBST_new, rec |-> RecursiveBST_new]
    /\ bstB = [iter |-> IterativeBST_new, rec |-> RecursiveBST_new]
    /\ how = "none"
    /\ cmp = None
    /\ iterator = NoIterator
    /\ frame = NoFrame

\* bst.insert(..) with the next value of the example; the values are
\* distinct, so size() counts the inserts made so far.
ScenarioInsert ==
    /\ iter.size < Len(vecA)
    /\ Insert(vecA[iter.size + 1])

ScenarioNext == ScenarioInsert \/ Height

ScenarioSpec == ScenarioInit /\ [][ScenarioNext]_vars

\* The values of the height test, inserted in the order of the test or in
\* any other order.
HeightScenario == <<15, 10, 20, 8, 12, 16, 25>>

HeightScenarioInit ==
    /\ iter = IterativeBST_new
    /\ rec = RecursiveBST_new
    /\ before = [iter |-> IterativeBST_new, rec |-> RecursiveBST_new]
    /\ last = [op |-> "new", arg |-> <<>>, ret |-> [iter |-> None, rec |-> None]]
    /\ contents = {}
    /\ panicked = FALSE
    /\ vecA \in {[i \in 1..Len(HeightScenario) |-> HeightScenario[p[i]]] :
                    p \in Permutations(1..Len(HeightScenario))}
    /\ vecB = <<>>
    /\ bstA = [iter |-> IterativeBST_new, rec |-> RecursiveBST_new]
    /\ bstB = [iter |-> IterativeBST_new, rec |-> RecursiveBST_new]
    /\ how = "none"
    /\ cmp = None
    /\ iterator = NoIterator
    /\ frame = NoFrame

HeightScenarioSpec == HeightScenarioInit /\ [][ScenarioNext]_vars

-----------------------------------------------------------------------------
(* Traversal iterators held by the client *)

\* Mutant: the new iterator resumes where the last exhausted one stopped
\* instead of starting over.
OrderIter_resumes(order) ==
    /\ ~panicked
    /\ iterator.kind = "none"
    /\ LET skip == IF is_some(iterator.earlier) THEN unwrap(iterator.earlier).len ELSE 0
           vec_i == IterativeBST_iter(iter, order)
           vec_r == RecursiveBST_iter(rec, order)
       IN  iterator' = [kind |-> "borrowing", order |-> order,
                        rest |-> [iter |-> SubSeq(vec_i, skip + 1, Len(vec_i)),
                                  rec |-> SubSeq(vec_r, skip + 1, Len(vec_r))],
                        yielded |-> [iter |-> <<>>, rec |-> <<>>],
                        earlier |-> iterator.earlier]
    /\ before' = [iter |-> iter, rec |-> rec]
    /\ last' = [op |-> "order_iter", arg |-> <<order>>,
                ret |-> [iter |-> None, rec |-> None]]
    /\ UNCHANGED <<iter, rec, contents, panicked>>
    /\ UNCHANGED buildVars

\* let it = bst.<order>_order_iter(): the vector is built from the tree as it
\* is now; the tree stays borrowed while the iterator is in use.
OrderIter(order) ==
    /\ ~panicked
    /\ iterator.kind = "none"
    /\ iterator' = [kind |-> "borrowing", order |-> order,
                    rest |-> [iter |-> IterativeBST_iter(iter, order),
                              rec |-> RecursiveBST_iter(rec, order)],
                    yielded |-> [iter |-> <<>>, rec |-> <<>>],
                    earlier |-> iterator.earlier]
    /\ before' = [iter |-> iter, rec |-> rec]
    /\ last' = [op |-> "order_iter", arg |-> <<order>>,
                ret |-> [iter |-> None, rec |-> None]]
    /\ UNCHANGED <<iter, rec, contents, panicked>>
    /\ UNCHANGED buildVars

\* let it = bst.into_<order>_order_iter(): the container is moved into the
\* call and is gone afterwards.
IntoOrderIter(order) ==
    /\ ~panicked
    /\ iterator.kind = "none"
    /\ iterator' = [kind |-> "consuming", order |-> order,
                    rest |-> [iter |-> IterativeBST_into_iter(iter, order),
                              rec |-> RecursiveBST_into_iter(rec, order)],
                    yielded |-> [iter |-> <<>>, rec |-> <<>>],
                    earlier |-> None]
    /\ iter' = Moved
    /\ rec' = Moved
    /\ before' = [iter |-> iter, rec |-> rec]
    /\ last' = [op |-> "into_order_iter", arg |-> <<order>>,
                ret |-> [iter |-> None, rec |-> None]]
    /\ UNCHANGED <<contents, panicked>>
    /\ UNCHANGED buildVars

\* The number of times next() has answered None.
Exhaustions(yielded) == Len(SelectSeq(yielded, LAMBDA y : y = None))

\* it.next(), on the iterator of each container.
IteratorNext ==
    /\ iterator.kind # "none"
    /\ Exhaustions(iterator.yielded.iter) < MaxExtraNext
    /\ LET i == IntoIter_next(iterator.rest.iter)
           r == IntoIter_next(iterator.rest.rec)
       IN  iterator' = [iterator EXCEPT
                           !.rest = [iter |-> i.items, rec |-> r.items],
                           !.yielded = [iter |-> Append(@.iter, i.ret),
                                        rec |-> Append(@.rec, r.ret)]]
    /\ UNCHANGED mainVars
    /\ UNCHANGED buildVars

\* drop(it): the borrow ends and the tree can be changed again.
DropIterator ==
    /\ iterator.kind = "borrowing"
    /\ iterator' = [NoIterator EXCEPT
                       !.earlier =
                           IF Exhaustions(iterator.yielded.iter) > 0
                           THEN Some([order |-> iterator.order,
                                      len |-> Len(iterator.yielded.iter)
                                              - Exhaustions(iterator.yielded.iter)])
                           ELSE None]
    /\ UNCHANGED mainVars
    /\ UNCHANGED buildVars

\* A client that builds a tree, takes one iterator of either kind and pulls.
IterValues == 1..IterVal

IterNext ==
    \/ \E value \in IterValues : iterator.kind = "none" /\ Insert(value)
    \/ \E value \in IterValues : iterator.kind = "none" /\ Remove(value)
    \/ \E order \in Orders : OrderIter(order)
    \/ \E order \in Orders : IntoOrderIter(order)
    \/ IteratorNext

IterSpec == Init /\ [][IterNext]_vars

\* A client that alternates between changing the tree and traversing it with
\* borrowing iterators.
RestartValues == 1..RestartVal

RestartNext ==
    \/ \E value \in RestartValues : iterator.kind = "none" /\ Insert(value)
    \/ \E value \in RestartValues : iterator.kind = "none" /\ Remove(value)
    \/ \E order \in Orders : OrderIter(order)
    \/ IteratorNext
    \/ DropIterator

RestartSpec == Init /\ [][RestartNext]_vars

-----------------------------------------------------------------------------
(* Clone *)

\* Mutant: clone walks the tree with pre_order_iter.
IterativeBST_clone_pre_order(self) ==
    IterativeBST_extend(IterativeBST_new, IterativeBST_iter(self, "pre"))

\* let mut bst = IterativeBST::new();
\* for value in self.in_order_iter() { bst.insert((*value).clone()) }
\* bst
IterativeBST_clone(self) ==
    LET RECURSIVE for(_, _)
        for(bst, values) ==
            IF values = <<>> THEN bst
            ELSE for(IterativeBST_insert(bst, Head(values)), Tail(values))
    IN  for(IterativeBST_new, IterativeBST_iter(self, "in"))

RecursiveBST_clone(self) ==
    LET RECURSIVE for(_, _)
        for(bst, values) ==
            IF values = <<>> THEN bst
            ELSE for(RecursiveBST_insert(bst, Head(values)), Tail(values))
    IN  for(RecursiveBST_new, RecursiveBST_iter(self, "in"))

\* Mutant: clone_from leaves the receiver as it was.
IterativeBST_clone_from_keeps(self, source) == self

\* The impl gives no clone_from of its own, so the provided method of the
\* Clone trait applies: *self = source.clone()
IterativeBST_clone_from(self, source) == IterativeBST_clone(source)

RecursiveBST_clone_from(self, source) == RecursiveBST_clone(source)

-----------------------------------------------------------------------------
(* Writes through retrieve_as_mut *)

\* if let Some(reference) = bst.retrieve_as_mut(&value) { *reference = new }
\* The recorded result is the value the reference pointed at, if any.
RetrieveAsMut(value, new) ==
    /\ ~panicked
    /\ LET i == IterativeBST_retrieve_as_mut(iter, value)
           r == RecursiveBST_retrieve_as_mut(rec, value)
       IN  /\ iter' = IF is_some(i)
                      THEN [iter EXCEPT !.root = assign(@, unwrap(i), new)]
                      ELSE iter
           /\ rec' = IF is_some(r)
                     THEN [rec EXCEPT !.root = assign(@, unwrap(r), new)]
                     ELSE rec
           /\ last' = [op |-> "retrieve_as_mut", arg |-> <<value, new>>,
                       ret |-> [iter |-> IF is_some(i)
                                         THEN Some(unwrap(slot(iter.root, unwrap(i))).value)
                                         ELSE None,
                                rec |-> IF is_some(r)
                                        THEN Some(unwrap(slot(rec.root, unwrap(r))).value)
                                        ELSE None]]
           /\ contents' = IF is_some(i) THEN (contents \ {value}) \cup {new}
                          ELSE contents
    /\ before' = [iter |-> iter, rec |-> rec]
    /\ UNCHANGED panicked
    /\ UNCHANGED buildVars
    /\ UNCHANGED iterator

-----------------------------------------------------------------------------
(* Vocabulary of the properties *)

RECURSIVE NodesOf(_)
NodesOf(root) ==
    IF is_none(root) THEN {}
    ELSE {unwrap(root)} \cup NodesOf(unwrap(root).left) \cup NodesOf(unwrap(root).right)

ValuesOf(root) == {n.value : n \in NodesOf(root)}

RECURSIVE CountNodes(_)
CountNodes(root) ==
    IF is_none(root) THEN 0
    ELSE 1 + CountNodes(unwrap(root).left) + CountNodes(unwrap(root).right)

StrictlyAscending(seq) == \A i \in 1..(Len(seq) - 1) : seq[i] < seq[i + 1]

\* Every node separates its left subtree from its right subtree.
Ordered(root) ==
    \A n \in NodesOf(root) :
        /\ \A x \in ValuesOf(n.left) : x < n.value
        /\ \A x \in ValuesOf(n.right) : x > n.value

\* The node holding value, in a tree without duplicates.
NodeOf(root, value) == CHOOSE n \in NodesOf(root) : n.value = value

HasTwoChildren(root, value) ==
    \E n \in NodesOf(root) : n.value = value /\ is_some(n.left) /\ is_some(n.right)

HasAtMostOneChild(root, value) ==
    \E n \in NodesOf(root) : n.value = value /\ (is_none(n.left) \/ is_none(n.right))

\* The cursor of the node holding value (value must be in the tree).
RECURSIVE PathOf(_, _)
PathOf(root, value) ==
    LET n == unwrap(root) IN
    IF n.value = value THEN <<>>
    ELSE IF value \in ValuesOf(n.left) THEN <<"left">> \o PathOf(n.left, value)
    ELSE <<"right">> \o PathOf(n.right, value)

\* seq without its entries equal to x.
Delete(seq, x) == SelectSeq(seq, LAMBDA y : y # x)

\* seq with every x replaced by y.
Replace(seq, x, y) == [i \in 1..Len(seq) |-> IF seq[i] = x THEN y ELSE seq[i]]

SetMin(S) == CHOOSE x \in S : \A y \in S : x <= y
SetMax(S) == CHOOSE x \in S : \A y \in S : x >= y

RECURSIVE SortSet(_)
SortSet(S) == IF S = {} THEN <<>> ELSE <<SetMin(S)>> \o SortSet(S \ {SetMin(S)})

-----------------------------------------------------------------------------
(* A client that writes through retrieve_as_mut *)

MutValues == 1..MutVal

\* The client inserts and writes only while the tree is still ordered; once
\* a write has broken the order it goes on removing.
MutNext ==
    \/ \E value \in MutValues : Ordered(iter.root) /\ Insert(value)
    \/ \E value \in MutValues : Remove(value)
    \/ \E value, new \in MutValues : Ordered(iter.root) /\ RetrieveAsMut(value, new)

MutSpec == Init /\ [][MutNext]_vars

\* A client that writes any value into any stored node and goes on using the
\* tree whatever has become of its order.  Inserts stop at ArbMaxSize nodes.
ArbVal == 2
ArbMaxSize == 3

ArbNext ==
    \/ \E value \in 1..ArbVal :
          iter.size < ArbMaxSize /\ rec.size < ArbMaxSize /\ Insert(value)
    \/ \E value \in 1..ArbVal : Remove(value)
    \/ RemoveMin
    \/ RemoveMax
    \/ Height
    \/ \E value, new \in 1..ArbVal : RetrieveAsMut(value, new)

ArbSpec == Init /\ [][ArbNext]_vars

-----------------------------------------------------------------------------
(* A client that clones the containers *)

CloneVal == 3

\* let copy = bst.clone();  bstA holds the copies.
Clone ==
    /\ ~panicked
    /\ bstA' = [iter |-> IterativeBST_clone(iter), rec |-> RecursiveBST_clone(rec)]
    /\ bstB' = bstA
    /\ how' = "clone"
    /\ before' = [iter |-> iter, rec |-> rec]
    /\ last' = [op |-> "clone", arg |-> <<>>, ret |-> [iter |-> None, rec |-> None]]
    /\ UNCHANGED <<iter, rec, contents, panicked>>
    /\ UNCHANGED <<vecA, vecB, cmp, frame>>
    /\ UNCHANGED iterator

\* copy.clone_from(&bst);  bstB keeps what the receivers held before.
CloneFrom ==
    /\ ~panicked
    /\ bstA' = [iter |-> IterativeBST_clone_from(bstA.iter, iter),
                rec |-> RecursiveBST_clone_from(bstA.rec, rec)]
    /\ bstB' = bstA
    /\ how' = "clone_from"
    /\ before' = [iter |-> iter, rec |-> rec]
    /\ last' = [op |-> "clone_from", arg |-> <<>>, ret |-> [iter |-> None, rec |-> None]]
    /\ UNCHANGED <<iter, rec, contents, panicked>>
    /\ UNCHANGED <<vecA, vecB, cmp, frame>>
    /\ UNCHANGED iterator

CloneNext ==
    \/ \E value \in 1..CloneVal : Insert(value)
    \/ \E value \in 1..CloneVal : Remove(value)
    \/ Clone
    \/ CloneFrom

CloneSpec == Init /\ [][CloneNext]_vars

-----------------------------------------------------------------------------
(* The node functions for the height, called on the root link as it is *)

\* Node::iterative_height(&root) and Node::recursive_height(&root), without
\* the look at the root that the containers' height() takes first.
NodeHeight ==
    /\ ~panicked
    /\ LET i == iterative_height(iter.root)
           r == recursive_height(rec.root)
       IN  /\ panicked' = i.panic
           /\ last' = [op |-> "node_height", arg |-> <<>>,
                       ret |-> [iter |-> IF i.panic THEN None ELSE Some(i.ret),
                                rec |-> Some(r)]]
    /\ before' = [iter |-> iter, rec |-> rec]
    /\ UNCHANGED <<iter, rec, contents>>
    /\ UNCHANGED buildVars
    /\ UNCHANGED iterator

NodeHeightNext ==
    \/ \E value \in Values : Insert(value)
    \/ \E value \in Values : Remove(value)
    \/ NodeHeight

NodeHeightSpec == Init /\ [][NodeHeightNext]_vars

-----------------------------------------------------------------------------
(* IterativeBST::into_in_order_iter, one loop iteration at a time *)

ConsumeVal == 4

\* into_in_order_iter(self) enters Node::iterative_consume_in_order_vec:
\* let mut elements = Vec::new(); let mut stack = vec![root];
ConsumeStart ==
    /\ ~panicked
    /\ frame.pc = "none"
    /\ frame' = [pc |-> "loop", stack |-> <<iter.root>>, elements |-> <<>>]
    /\ iter' = Moved
    /\ before' = [iter |-> iter, rec |-> rec]
    /\ last' = [op |-> "into_in_order_iter", arg |-> <<>>,
                ret |-> [iter |-> None, rec |-> None]]
    /\ UNCHANGED <<rec, contents, panicked>>
    /\ UNCHANGED <<vecA, vecB, bstA, bstB, how, cmp>>
    /\ UNCHANGED iterator

\* while !stack.is_empty() { one iteration }; once the stack is empty the
\* function returns elements.
ConsumeStep ==
    /\ frame.pc = "loop"
    /\ frame' = IF frame.stack # <<>>
                THEN LET s == iterative_consume_in_order_step(frame.stack, frame.elements)
                     IN  [pc |-> "loop", stack |-> s.stack, elements |-> s.elements]
                ELSE [frame EXCEPT !.pc = "done"]
    /\ UNCHANGED mainVars
    /\ UNCHANGED <<vecA, vecB, bstA, bstB, how, cmp>>
    /\ UNCHANGED iterator

ConsumeNext ==
    \/ \E value \in 1..ConsumeVal : frame.pc = "none" /\ Insert(value)
    \/ \E value \in 1..ConsumeVal : frame.pc = "none" /\ Remove(value)
    \/ ConsumeStart
    \/ ConsumeStep

\* The call runs on the caller's thread with nothing to wait for: a loop
\* iteration that can be taken is taken.
ConsumeSpec == Init /\ [][ConsumeNext]_vars /\ WF_vars(ConsumeStep)

-----------------------------------------------------------------------------
(* A client that takes back what it has just inserted *)

\* bst.insert(value); bst.remove(&value);
InsertThenRemove(value) ==
    /\ ~panicked
    /\ LET i == IterativeBST_remove(IterativeBST_insert(iter, value), value)
           r == RecursiveBST_remove(RecursiveBST_insert(rec, value), value)
       IN  /\ iter' = i.bst
           /\ rec' = r.bst
           /\ panicked' = (i.panic \/ r.panic)
    /\ before' = [iter |-> iter, rec |-> rec]
    /\ last' = [op |-> "insert_remove", arg |-> <<value>>,
                ret |-> [iter |-> None, rec |-> None]]
    /\ contents' = contents \ {value}
    /\ UNCHANGED buildVars
    /\ UNCHANGED iterator

UndoNext ==
    \/ \E value \in Values : Insert(value)
    \/ \E value \in Values : Remove(value)
    \/ \E value \in Values : InsertThenRemove(value)

UndoSpec == Init /\ [][UndoNext]_vars

-----------------------------------------------------------------------------
(* Properties *)

\* C1: after any sequence of insert, remove, remove_min and remove_max from
\* the empty tree, in_order_vec() and asc_order_vec() of both containers are
\* strictly ascending, and every node has only smaller values in its left
\* subtree and only larger values in its right subtree.
C1_OrderingInvariant ==
    /\ StrictlyAscending(IterativeBST_in_order_vec(iter))
    /\ StrictlyAscending(IterativeBST_asc_order_vec(iter))
    /\ StrictlyAscending(RecursiveBST_in_order_vec(rec))
    /\ StrictlyAscending(RecursiveBST_asc_order_vec(rec))
    /\ Ordered(iter.root)
    /\ Ordered(rec.root)

\* A two-children removal whose successor sits below the right child has
\* just happened in a five-node tree.
C1_Witness ==
    /\ last.op = "remove"
    /\ before.iter.size = 5
    /\ iter.size = 4
    /\ HasTwoChildren(before.iter.root, last.arg[1])
    /\ is_some(NodeOf(before.iter.root, last.arg[1]).right[1].left)
    /\ StrictlyAscending(IterativeBST_in_order_vec(iter))

\* C2: size() equals the number of nodes reachable from root and the length
\* of in_order_vec(); it grows by one exactly when an insert added a value,
\* shrinks by one exactly when a removal took a value out, never goes below
\* zero; is_empty() holds exactly when root is absent and is_not_empty() is
\* its negation.
C2_SizeInvariant ==
    /\ IterativeBST_size(iter) = CountNodes(iter.root)
    /\ IterativeBST_size(iter) = Len(IterativeBST_in_order_vec(iter))
    /\ RecursiveBST_size(rec) = CountNodes(rec.root)
    /\ RecursiveBST_size(rec) = Len(RecursiveBST_in_order_vec(rec))
    /\ IterativeBST_size(iter) >= 0
    /\ RecursiveBST_size(rec) >= 0
    /\ IterativeBST_is_empty(iter) <=> is_none(iter.root)
    /\ RecursiveBST_is_empty(rec) <=> is_none(rec.root)
    /\ IterativeBST_is_not_empty(iter) <=> ~IterativeBST_is_empty(iter)
    /\ RecursiveBST_is_not_empty(rec) <=> ~RecursiveBST_is_empty(rec)
    /\ last.op = "insert" =>
         LET grew == IF last.arg[1] \in ValuesOf(before.iter.root) THEN 0 ELSE 1 IN
         /\ iter.size = before.iter.size + grew
         /\ rec.size = before.rec.size + grew
    /\ last.op = "extend" =>
         LET grew == Cardinality(Range(last.arg) \ ValuesOf(before.iter.root)) IN
         /\ iter.size = before.iter.size + grew
         /\ rec.size = before.rec.size + grew
    /\ last.op = "remove" =>
         LET shrank == IF last.arg[1] \in ValuesOf(before.iter.root) THEN 1 ELSE 0 IN
         /\ iter.size = before.iter.size - shrank
         /\ rec.size = before.rec.size - shrank
    /\ last.op \in {"remove_min", "remove_max"} =>
         LET shrank == IF is_some(before.iter.root) THEN 1 ELSE 0 IN
         /\ iter.size = before.iter.size - shrank
         /\ rec.size = before.rec.size - shrank

\* extend() with a two-value sequence of which only one value was new.
C2_Witness ==
    /\ last.op = "extend"
    /\ Len(last.arg) = 2
    /\ before.iter.size = 2
    /\ iter.size = 3
    /\ rec.size = 3
    /\ CountNodes(iter.root) = 3

\* C3: driven by the same calls, the two containers agree after every step
\* on all four traversals, on size(), height(), min() and max(), and on the
\* shape of the tree.
C3_StrategyEquivalence ==
    /\ IterativeBST_pre_order_vec(iter) = RecursiveBST_pre_order_vec(rec)
    /\ IterativeBST_in_order_vec(iter) = RecursiveBST_in_order_vec(rec)
    /\ IterativeBST_post_order_vec(iter) = RecursiveBST_post_order_vec(rec)
    /\ IterativeBST_level_order_vec(iter) = RecursiveBST_level_order_vec(rec)
    /\ IterativeBST_size(iter) = RecursiveBST_size(rec)
    /\ IterativeBST_height(iter) = RecursiveBST_height(rec)
    /\ IterativeBST_min(iter) = RecursiveBST_min(rec)
    /\ IterativeBST_max(iter) = RecursiveBST_max(rec)
    /\ iter.root = rec.root

\* Both containers hold a tree of height two after a two-children removal.
C3_Witness ==
    /\ last.op = "remove"
    /\ HasTwoChildren(before.iter.root, last.arg[1])
    /\ HasTwoChildren(before.rec.root, last.arg[1])
    /\ IterativeBST_height(iter) = [panic |-> FALSE, ret |-> Some(2)]
    /\ RecursiveBST_height(rec) = [panic |-> FALSE, ret |-> Some(2)]
    /\ iter.size = 4

\* C4: remove(v) on a node with two children leaves the node where it is
\* with its left subtree untouched, overwrites its value with the smallest
\* value greater than v (the minimum of its right subtree), unlinks the node
\* that held that minimum and puts that node's right child in its slot,
\* decrements size, and leaves in_order_vec equal to the old one minus v.
C4_Holds(b, a, v, pre_b, pre_a, in_b, in_a) ==
    LET old == NodeOf(b.root, v)
        succ == SetMin({x \in ValuesOf(b.root) : x > v})
        succNode == NodeOf(b.root, succ)
    IN  /\ succ = SetMin(ValuesOf(old.right))
        /\ succ \in ValuesOf(a.root)
        /\ PathOf(a.root, succ) = PathOf(b.root, v)
        /\ NodeOf(a.root, succ).left = old.left
        /\ ValuesOf(NodeOf(a.root, succ).right) = ValuesOf(old.right) \ {succ}
        /\ slot(a.root, PathOf(b.root, succ)) = succNode.right
        /\ pre_a = Replace(Delete(pre_b, succ), v, succ)
        /\ in_a = Delete(in_b, v)
        /\ a.size = b.size - 1

C4_TwoChildrenRemoval ==
    (last.op = "remove" /\ HasTwoChildren(before.iter.root, last.arg[1])) =>
        /\ C4_Holds(before.iter, iter, last.arg[1],
                    IterativeBST_pre_order_vec(before.iter),
                    IterativeBST_pre_order_vec(iter),
                    IterativeBST_in_order_vec(before.iter),
                    IterativeBST_in_order_vec(iter))
        /\ C4_Holds(before.rec, rec, last.arg[1],
                    RecursiveBST_pre_order_vec(before.rec),
                    RecursiveBST_pre_order_vec(rec),
                    RecursiveBST_in_order_vec(before.rec),
                    RecursiveBST_in_order_vec(rec))

\* The removed node had two children and its successor, found by going left
\* below the right child, had a right child of its own.
C4_Witness ==
    /\ last.op = "remove"
    /\ HasTwoChildren(before.iter.root, last.arg[1])
    /\ LET old == NodeOf(before.iter.root, last.arg[1]) IN
       /\ is_some(unwrap(old.right).left)
       /\ is_some(unwrap(unwrap(old.right).left).right)
    /\ iter.size = 4
    /\ last.arg[1] \notin ValuesOf(iter.root)

\* C5: remove(v) on a leaf empties the parent's slot, on a node with one
\* child puts the child subtree in the node's slot; size decrements,
\* contains(v) becomes false and pre_order_vec is the old one without v.
C5_Holds(b, a, v, pre_b, pre_a, has_v) ==
    LET old == NodeOf(b.root, v)
        child == IF is_some(old.left) THEN old.left ELSE old.right
    IN  /\ slot(a.root, PathOf(b.root, v)) = child
        /\ a.root = write(b.root, PathOf(b.root, v), child)
        /\ a.size = b.size - 1
        /\ ~has_v
        /\ pre_a = Delete(pre_b, v)

C5_LeafAndOneChildRemoval ==
    (last.op = "remove" /\ HasAtMostOneChild(before.iter.root, last.arg[1])) =>
        /\ C5_Holds(before.iter, iter, last.arg[1],
                    IterativeBST_pre_order_vec(before.iter),
                    IterativeBST_pre_order_vec(iter),
                    IterativeBST_contains(iter, last.arg[1]))
        /\ C5_Holds(before.rec, rec, last.arg[1],
                    RecursiveBST_pre_order_vec(before.rec),
                    RecursiveBST_pre_order_vec(rec),
                    RecursiveBST_contains(rec, last.arg[1]))

\* An inner node with exactly one child, itself the root of a two-node
\* subtree, was removed.
C5_Witness ==
    /\ last.op = "remove"
    /\ HasAtMostOneChild(before.iter.root, last.arg[1])
    /\ LET old == NodeOf(before.iter.root, last.arg[1]) IN
       /\ PathOf(before.iter.root, last.arg[1]) # <<>>
       /\ is_some(old.left) \/ is_some(old.right)
       /\ CountNodes(Some(old)) = 3
    /\ iter.size = before.iter.size - 1
    /\ ~IterativeBST_contains(iter, last.arg[1])

\* C6: remove(v) of a value that is not in the tree changes nothing: size and
\* the four traversals are as before and nothing panics.
C6_RemoveAbsent ==
    (last.op = "remove" /\ last.arg[1] \notin ValuesOf(before.iter.root)) =>
        /\ ~panicked
        /\ iter.size = before.iter.size
        /\ rec.size = before.rec.size
        /\ iter.root = before.iter.root
        /\ rec.root = before.rec.root
        /\ IterativeBST_pre_order_vec(iter) = IterativeBST_pre_order_vec(before.iter)
        /\ IterativeBST_in_order_vec(iter) = IterativeBST_in_order_vec(before.iter)
        /\ IterativeBST_post_order_vec(iter) = IterativeBST_post_order_vec(before.iter)
        /\ IterativeBST_level_order_vec(iter) = IterativeBST_level_order_vec(before.iter)
        /\ RecursiveBST_pre_order_vec(rec) = RecursiveBST_pre_order_vec(before.rec)
        /\ RecursiveBST_in_order_vec(rec) = RecursiveBST_in_order_vec(before.rec)
        /\ RecursiveBST_post_order_vec(rec) = RecursiveBST_post_order_vec(before.rec)
        /\ RecursiveBST_level_order_vec(rec) = RecursiveBST_level_order_vec(before.rec)

\* A value lying between stored values was asked to be removed from a
\* four-node tree.
C6_Witness ==
    /\ last.op = "remove"
    /\ last.arg[1] \notin ValuesOf(before.iter.root)
    /\ before.iter.size = 4
    /\ \E x, y \in ValuesOf(before.iter.root) : x < last.arg[1] /\ last.arg[1] < y
    /\ iter = before.iter
    /\ rec = before.rec

\* C7: insert(v) of a value already stored changes nothing in either
\* container: size, contains() of every value and the four traversals are
\* as before.
C7_InsertDuplicate ==
    (last.op = "insert" /\ last.arg[1] \in ValuesOf(before.iter.root)) =>
        /\ iter.size = before.iter.size
        /\ rec.size = before.rec.size
        /\ iter.root = before.iter.root
        /\ rec.root = before.rec.root
        /\ \A x \in Values :
             /\ IterativeBST_contains(iter, x) = IterativeBST_contains(before.iter, x)
             /\ RecursiveBST_contains(rec, x) = RecursiveBST_contains(before.rec, x)
        /\ IterativeBST_pre_order_vec(iter) = IterativeBST_pre_order_vec(before.iter)
        /\ IterativeBST_in_order_vec(iter) = IterativeBST_in_order_vec(before.iter)
        /\ IterativeBST_post_order_vec(iter) = IterativeBST_post_order_vec(before.iter)
        /\ IterativeBST_level_order_vec(iter) = IterativeBST_level_order_vec(before.iter)
        /\ RecursiveBST_pre_order_vec(rec) = RecursiveBST_pre_order_vec(before.rec)
        /\ RecursiveBST_in_order_vec(rec) = RecursiveBST_in_order_vec(before.rec)
        /\ RecursiveBST_post_order_vec(rec) = RecursiveBST_post_order_vec(before.rec)
        /\ RecursiveBST_level_order_vec(rec) = RecursiveBST_level_order_vec(before.rec)

\* A value stored two levels below the root was inserted again.
C7_Witness ==
    /\ last.op = "insert"
    /\ last.arg[1] \in ValuesOf(before.iter.root)
    /\ Len(PathOf(before.iter.root, last.arg[1])) = 2
    /\ iter.size = 4
    /\ rec.size = 4
    /\ before.iter.size = 4

\* C8: contains(v) is true exactly for the values inserted and not since
\* removed, which are the values of in_order_vec(); retrieve(v) is Some(v)
\* exactly when contains(v) is true and None otherwise.
C8_ContainsRetrieve ==
    /\ Range(IterativeBST_in_order_vec(iter)) = contents
    /\ Range(RecursiveBST_in_order_vec(rec)) = contents
    /\ \A v \in Values :
         /\ IterativeBST_contains(iter, v) = (v \in contents)
         /\ RecursiveBST_contains(rec, v) = (v \in contents)
         /\ IterativeBST_retrieve(iter, v) = IF v \in contents THEN Some(v) ELSE None
         /\ RecursiveBST_retrieve(rec, v) = IF v \in contents THEN Some(v) ELSE None
    /\ last.op = "contains" =>
         /\ last.ret.iter = Some(last.arg[1] \in contents)
         /\ last.ret.rec = Some(last.arg[1] \in contents)
    /\ last.op = "retrieve" =>
         /\ last.ret.iter = IF last.arg[1] \in contents THEN Some(last.arg[1]) ELSE None
         /\ last.ret.rec = IF last.arg[1] \in contents THEN Some(last.arg[1]) ELSE None

\* retrieve() found a value stored two levels below the root of a tree that
\* holds three of the five values.
C8_Witness ==
    /\ last.op = "retrieve"
    /\ last.ret.iter = Some(last.arg[1])
    /\ last.ret.rec = Some(last.arg[1])
    /\ Cardinality(contents) = 3
    /\ Len(PathOf(iter.root, last.arg[1])) = 2

\* C9: two containers of the same strategy compare equal exactly when their
\* ascending sequences are equal, whatever their shapes: containers built
\* from inputs holding the same set of values are equal, containers built
\* from inputs holding different sets are not.
C9_EqualityByContents ==
    cmp # None =>
        /\ unwrap(cmp).iter <=> (Range(vecA) = Range(vecB))
        /\ unwrap(cmp).rec <=> (Range(vecA) = Range(vecB))
        /\ unwrap(cmp).iter <=>
             (IterativeBST_asc_order_vec(bstA.iter) = IterativeBST_asc_order_vec(bstB.iter))
        /\ unwrap(cmp).rec <=>
             (RecursiveBST_asc_order_vec(bstA.rec) = RecursiveBST_asc_order_vec(bstB.rec))

\* Two three-node trees of different shapes, built from permutations of the
\* same values, compared equal.
C9_Witness ==
    /\ cmp = Some([iter |-> TRUE, rec |-> TRUE])
    /\ bstA.iter.size = 3
    /\ bstB.iter.size = 3
    /\ bstA.iter.root # bstB.iter.root
    /\ bstA.rec.root # bstB.rec.root

\* The first position of x in vec.
FirstIndex(vec, x) == SetMin({i \in 1..Len(vec) : vec[i] = x})

\* Every node was inserted before everything below it.
InInsertionOrder(root, vec) ==
    \A n \in NodesOf(root) :
        \A x \in ValuesOf(n.left) \cup ValuesOf(n.right) :
            FirstIndex(vec, n.value) < FirstIndex(vec, x)

C10_Holds(vec, bst, asc) ==
    /\ asc = SortSet(Range(vec))
    /\ bst.size = Cardinality(Range(vec))
    /\ CountNodes(bst.root) = Cardinality(Range(vec))
    /\ InInsertionOrder(bst.root, vec)

\* C10: a container built from a sequence (From<Vec>, From<&[T]>,
\* FromIterator, extend on an empty container) has inserted the values in
\* sequence order and dropped the duplicates: asc_order_vec() is the sorted
\* deduplicated input and size() the number of distinct input values.
C10_RoundTripConstruction ==
    how # "none" =>
        /\ C10_Holds(vecA, bstA.iter, IterativeBST_asc_order_vec(bstA.iter))
        /\ C10_Holds(vecA, bstA.rec, RecursiveBST_asc_order_vec(bstA.rec))
        /\ C10_Holds(vecB, bstB.iter, IterativeBST_asc_order_vec(bstB.iter))
        /\ C10_Holds(vecB, bstB.rec, RecursiveBST_asc_order_vec(bstB.rec))

\* From<Vec> turned an unsorted three-value input with a repeated value into
\* a two-node container.
C10_Witness ==
    /\ how = "from_vec"
    /\ Len(vecA) = 3
    /\ vecA[1] > vecA[2]
    /\ vecA[3] = vecA[1]
    /\ bstA.iter.size = 2
    /\ bstA.rec.size = 2
    /\ IterativeBST_asc_order_vec(bstA.iter) = <<vecA[2], vecA[1]>>

\* The depths (edges from the root) of the nodes of a tree.
RECURSIVE DepthsOf(_, _)
DepthsOf(root, depth) ==
    IF is_none(root) THEN {}
    ELSE {depth} \cup DepthsOf(unwrap(root).left, depth + 1)
                 \cup DepthsOf(unwrap(root).right, depth + 1)

\* The number of edges on the longest root-to-leaf path of a non-empty tree.
LongestPath(root) == SetMax(DepthsOf(root, 0))

C11_HeightOf(bst, h) ==
    /\ ~h.panic
    /\ (h.ret = None) <=> is_none(bst.root)
    /\ is_some(bst.root) => h.ret = Some(LongestPath(bst.root))

RECURSIVE PreOrderOf(_)
PreOrderOf(root) ==
    IF is_none(root) THEN <<>>
    ELSE <<unwrap(root).value>> \o PreOrderOf(unwrap(root).left)
                                \o PreOrderOf(unwrap(root).right)

RECURSIVE InOrderOf(_)
InOrderOf(root) ==
    IF is_none(root) THEN <<>>
    ELSE InOrderOf(unwrap(root).left) \o <<unwrap(root).value>>
                                      \o InOrderOf(unwrap(root).right)

RECURSIVE PostOrderOf(_)
PostOrderOf(root) ==
    IF is_none(root) THEN <<>>
    ELSE PostOrderOf(unwrap(root).left) \o PostOrderOf(unwrap(root).right)
                                        \o <<unwrap(root).value>>

\* The values at a given depth, left to right.
RECURSIVE AtDepth(_, _)
AtDepth(root, depth) ==
    IF is_none(root) THEN <<>>
    ELSE IF depth = 0 THEN <<unwrap(root).value>>
    ELSE AtDepth(unwrap(root).left, depth - 1) \o AtDepth(unwrap(root).right, depth - 1)

RECURSIVE LevelsFrom(_, _)
LevelsFrom(root, depth) ==
    IF AtDepth(root, depth) = <<>> THEN <<>>
    ELSE AtDepth(root, depth) \o LevelsFrom(root, depth + 1)

LevelOrderOf(root) == LevelsFrom(root, 0)

C12_Literals(pre, in, post, level, height) ==
    /\ pre = <<4, 2, 1, 3, 6, 5, 7>>
    /\ in = <<1, 2, 3, 4, 5, 6, 7>>
    /\ post = <<1, 3, 2, 5, 7, 6, 4>>
    /\ level = <<4, 2, 6, 1, 3, 5, 7>>
    /\ height = Some(2)

\* C12: inserting 4, 6, 2, 7, 5, 3, 1 into an empty tree of either strategy
\* gives pre-order [4,2,1,3,6,5,7], in-order [1..7], post-order
\* [1,3,2,5,7,6,4], level-order [4,2,6,1,3,5,7] and height 2; and whatever the
\* insertion order, pre-order is node, left, right; in-order left, node,
\* right; post-order left, right, node; level-order breadth-first, left child
\* before right child.
C12_TraversalLiterals ==
    /\ IterativeBST_pre_order_vec(iter) = PreOrderOf(iter.root)
    /\ IterativeBST_in_order_vec(iter) = InOrderOf(iter.root)
    /\ IterativeBST_post_order_vec(iter) = PostOrderOf(iter.root)
    /\ IterativeBST_level_order_vec(iter) = LevelOrderOf(iter.root)
    /\ RecursiveBST_pre_order_vec(rec) = PreOrderOf(rec.root)
    /\ RecursiveBST_in_order_vec(rec) = InOrderOf(rec.root)
    /\ RecursiveBST_post_order_vec(rec) = PostOrderOf(rec.root)
    /\ RecursiveBST_level_order_vec(rec) = LevelOrderOf(rec.root)
    /\ (vecA = <<4, 6, 2, 7, 5, 3, 1>> /\ iter.size = ScenarioLen) =>
          /\ C12_Literals(IterativeBST_pre_order_vec(iter),
                          IterativeBST_in_order_vec(iter),
                          IterativeBST_post_order_vec(iter),
                          IterativeBST_level_order_vec(iter),
                          IterativeBST_height(iter).ret)
          /\ C12_Literals(RecursiveBST_pre_order_vec(rec),
                          RecursiveBST_in_order_vec(rec),
                          RecursiveBST_post_order_vec(rec),
                          RecursiveBST_level_order_vec(rec),
                          RecursiveBST_height(rec).ret)
          /\ rec.size = ScenarioLen
          /\ ~panicked

\* The example has been built and height() called on it.
C12_Witness ==
    /\ vecA = <<4, 6, 2, 7, 5, 3, 1>>
    /\ iter.size = ScenarioLen
    /\ last.op = "height"
    /\ last.ret = [iter |-> Some(2), rec |-> Some(2)]
    /\ IterativeBST_post_order_vec(iter) = <<1, 3, 2, 5, 7, 6, 4>>

\* What an empty container answers, and what the removing calls do to it.
C13_EmptyAnswers(min, max, height, remove_min, remove_max, pre, in, post, level) ==
    /\ min = None
    /\ max = None
    /\ height = [panic |-> FALSE, ret |-> None]
    /\ remove_min.ret = None /\ ~remove_min.panic /\ remove_min.bst.size = 0
    /\ remove_max.ret = None /\ ~remove_max.panic /\ remove_max.bst.size = 0
    /\ pre = <<>> /\ in = <<>> /\ post = <<>> /\ level = <<>>

RECURSIVE Outermost(_, _)
Outermost(root, side) ==
    IF is_none(unwrap(root)[side]) THEN unwrap(root).value
    ELSE Outermost(unwrap(root)[side], side)

C14_MinMaxOf(root, min, max, asc) ==
    /\ min = Some(SetMin(ValuesOf(root)))
    /\ min = Some(Head(asc))
    /\ min = Some(Outermost(root, "left"))
    /\ max = Some(SetMax(ValuesOf(root)))
    /\ max = Some(asc[Len(asc)])
    /\ max = Some(Outermost(root, "right"))

\* C14: on every non-empty tree min() is the smallest stored value (the first
\* element of asc_order_vec, held by the leftmost node) and max() the largest
\* (the last element, held by the rightmost node); a min() or max() call
\* returns that and leaves the tree as it was.
C14_MinMax ==
    /\ is_some(iter.root) =>
          /\ C14_MinMaxOf(iter.root, IterativeBST_min(iter), IterativeBST_max(iter),
                          IterativeBST_asc_order_vec(iter))
          /\ IterativeBST_min(iter) = Some(SetMin(contents))
          /\ IterativeBST_max(iter) = Some(SetMax(contents))
    /\ is_some(rec.root) =>
          C14_MinMaxOf(rec.root, RecursiveBST_min(rec), RecursiveBST_max(rec),
                       RecursiveBST_asc_order_vec(rec))
    /\ last.op = "min" =>
          /\ iter = before.iter /\ rec = before.rec /\ ~panicked
          /\ last.ret = [iter |-> IterativeBST_min(iter), rec |-> RecursiveBST_min(rec)]
          /\ last.ret.iter = last.ret.rec
    /\ last.op = "max" =>
          /\ iter = before.iter /\ rec = before.rec /\ ~panicked
          /\ last.ret = [iter |-> IterativeBST_max(iter), rec |-> RecursiveBST_max(rec)]
          /\ last.ret.iter = last.ret.rec

\* max() on a tree whose root is neither its minimum nor its maximum.
C14_Witness ==
    /\ last.op = "max"
    /\ iter.size >= 3
    /\ last.ret = [iter |-> Some(MaxVal), rec |-> Some(MaxVal)]
    /\ IterativeBST_min(iter) = Some(1)
    /\ unwrap(iter.root).value \notin {1, MaxVal}

\* b, a: a container before and after remove_min (side = "left") or
\* remove_max (side = "right"); ret: what the call returned; m: what min()
\* (max()) answered before the call; in_b, in_a: in_order_vec before and after.
C15_Holds(b, a, ret, m, side, other, in_b, in_a) ==
    LET node == NodeOf(b.root, unwrap(m)) IN
    /\ ret = m
    /\ is_some(m)
    /\ is_none(node[side])
    /\ a.root = write(b.root, PathOf(b.root, unwrap(m)), node[other])
    /\ a.size = b.size - 1
    /\ in_a = IF side = "left" THEN Tail(in_b) ELSE SubSeq(in_b, 1, Len(in_b) - 1)
    /\ ValuesOf(a.root) = ValuesOf(b.root) \ {unwrap(m)}

\* C15: on a non-empty tree remove_min() (remove_max()) returns Some(m), m the
\* value min() (max()) answered just before; the node of m, which has no left
\* (right) child, is replaced in its parent slot by its right (left) child;
\* size drops by one and in_order_vec loses exactly its first (last) element.
C15_RemoveMinMax ==
    /\ (last.op = "remove_min" /\ is_some(before.iter.root)) =>
          /\ ~panicked
          /\ C15_Holds(before.iter, iter, last.ret.iter, IterativeBST_min(before.iter),
                       "left", "right",
                       IterativeBST_in_order_vec(before.iter),
                       IterativeBST_in_order_vec(iter))
          /\ C15_Holds(before.rec, rec, last.ret.rec, RecursiveBST_min(before.rec),
                       "left", "right",
                       RecursiveBST_in_order_vec(before.rec),
                       RecursiveBST_in_order_vec(rec))
    /\ (last.op = "remove_max" /\ is_some(before.iter.root)) =>
          /\ ~panicked
          /\ C15_Holds(before.iter, iter, last.ret.iter, IterativeBST_max(before.iter),
                       "right", "left",
                       IterativeBST_in_order_vec(before.iter),
                       IterativeBST_in_order_vec(iter))
          /\ C15_Holds(before.rec, rec, last.ret.rec, RecursiveBST_max(before.rec),
                       "right", "left",
                       RecursiveBST_in_order_vec(before.rec),
                       RecursiveBST_in_order_vec(rec))

\* remove_min() detached a minimum that was below the root and had a right
\* subtree, which now hangs in its place.
C15_Witness ==
    /\ last.op = "remove_min"
    /\ is_some(before.iter.root)
    /\ is_some(last.ret.iter)
    /\ PathOf(before.iter.root, unwrap(last.ret.iter)) # <<>>
    /\ is_some(NodeOf(before.iter.root, unwrap(last.ret.iter)).right)
    /\ iter.size = before.iter.size - 1

\* The *_order_vec method that corresponds to an iterator method.
IterativeOrderVec(bst, order) ==
    CASE order = "asc" -> IterativeBST_asc_order_vec(bst)
      [] order = "pre" -> IterativeBST_pre_order_vec(bst)
      [] order = "in" -> IterativeBST_in_order_vec(bst)
      [] order = "post" -> IterativeBST_post_order_vec(bst)
      [] order = "level" -> IterativeBST_level_order_vec(bst)

RecursiveOrderVec(bst, order) ==
    CASE order = "asc" -> RecursiveBST_asc_order_vec(bst)
      [] order = "pre" -> RecursiveBST_pre_order_vec(bst)
      [] order = "in" -> RecursiveBST_in_order_vec(bst)
      [] order = "post" -> RecursiveBST_post_order_vec(bst)
      [] order = "level" -> RecursiveBST_level_order_vec(bst)

\* The values an iterator has yielded so far, in order.
Yields(yielded) ==
    LET some == SelectSeq(yielded, LAMBDA y : y # None)
    IN  [i \in 1..Len(some) |-> unwrap(some[i])]

\* Every value of the tree occurs exactly once in seq.
EachOnce(seq, root) ==
    /\ Len(seq) = CountNodes(root)
    /\ \A v \in ValuesOf(root) : Cardinality({i \in 1..Len(seq) : seq[i] = v}) = 1

\* C16: for every tree, each order and both strategies, the consuming
\* iterator (into_*_iter) runs over exactly the sequence the borrowing form
\* (*_iter, *_order_vec) gives on the same tree, each stored value once.
C16_ConsumingEqualsBorrowing ==
    /\ iterator.kind # "consuming" =>
          \A order \in Orders :
              /\ IterativeBST_into_iter(iter, order) = IterativeBST_iter(iter, order)
              /\ RecursiveBST_into_iter(rec, order) = RecursiveBST_iter(rec, order)
              /\ IterativeBST_into_iter(iter, order) = RecursiveBST_into_iter(rec, order)
    /\ iterator.kind = "consuming" =>
          LET all_i == Yields(iterator.yielded.iter) \o iterator.rest.iter
              all_r == Yields(iterator.yielded.rec) \o iterator.rest.rec
          IN  /\ all_i = IterativeBST_iter(before.iter, iterator.order)
              /\ all_i = IterativeOrderVec(before.iter, iterator.order)
              /\ all_r = RecursiveBST_iter(before.rec, iterator.order)
              /\ all_r = RecursiveOrderVec(before.rec, iterator.order)
              /\ EachOnce(all_i, before.iter.root)
              /\ EachOnce(all_r, before.rec.root)
              /\ Len(all_i) = before.iter.size
              /\ iter = Moved /\ rec = Moved

\* into_level_order_iter() on a four-node tree whose level order differs from
\* its pre-order, pulled to the end.
C16_Witness ==
    /\ iterator.kind = "consuming"
    /\ iterator.order = "level"
    /\ before.iter.size = 4
    /\ IterativeBST_level_order_vec(before.iter) # IterativeBST_pre_order_vec(before.iter)
    /\ iterator.rest = [iter |-> <<>>, rec |-> <<>>]
    /\ Yields(iterator.yielded.rec) = RecursiveBST_level_order_vec(before.rec)
    /\ Exhaustions(iterator.yielded.iter) = 1

\* The answers of next() so far are the elements of vec in order, each once,
\* then None for ever; `rest` is what has not been yielded yet.
C17_SinglePassOver(vec, size, yielded, rest) ==
    /\ \A i \in 1..Len(yielded) :
          yielded[i] = IF i <= Len(vec) THEN Some(vec[i]) ELSE None
    /\ Len(Yields(yielded)) <= size
    /\ Exhaustions(yielded) > 0 => Len(Yields(yielded)) = size
    /\ Yields(yielded) \o rest = vec
    /\ Len(vec) = size

\* C17: a traversal iterator, borrowing or consuming, is a single pass over
\* its materialized sequence: the calls of next() yield the elements of the
\* corresponding *_order_vec in order, each once, size() of them in all, and
\* once next() has answered None it answers None on every further call.
C17_SinglePass ==
    iterator.kind # "none" =>
        LET src == IF iterator.kind = "consuming" THEN before
                   ELSE [iter |-> iter, rec |-> rec]
        IN  /\ C17_SinglePassOver(IterativeOrderVec(src.iter, iterator.order),
                                  IterativeBST_size(src.iter),
                                  iterator.yielded.iter, iterator.rest.iter)
            /\ C17_SinglePassOver(RecursiveOrderVec(src.rec, iterator.order),
                                  RecursiveBST_size(src.rec),
                                  iterator.yielded.rec, iterator.rest.rec)

\* post_order_iter() on a three-node tree: three values, then None twice.
C17_Witness ==
    /\ iterator.kind = "borrowing"
    /\ iterator.order = "post"
    /\ iter.size = 3
    /\ Len(iterator.yielded.iter) = 3 + MaxExtraNext
    /\ Yields(iterator.yielded.iter) = IterativeBST_post_order_vec(iter)
    /\ IterativeBST_post_order_vec(iter) # IterativeBST_pre_order_vec(iter)
    /\ iterator.yielded.iter[4] = None
    /\ iterator.yielded.iter[3 + MaxExtraNext] = None

\* C18: traversal iterators are restartable by making a new one: a borrowing
\* traversal method called after an earlier iterator was exhausted and
\* dropped and the tree was changed returns an iterator that starts at the
\* first element and runs over the traversal of the tree as it is at the time
\* of that call.
C18_Restartable ==
    iterator.kind = "borrowing" =>
        /\ last.op = "order_iter" /\ last.arg = <<iterator.order>>
        /\ iter = before.iter /\ rec = before.rec
        /\ Yields(iterator.yielded.iter) \o iterator.rest.iter
              = IterativeOrderVec(iter, iterator.order)
        /\ Yields(iterator.yielded.rec) \o iterator.rest.rec
              = RecursiveOrderVec(rec, iterator.order)
        /\ iterator.yielded.iter = <<>> =>
              /\ iterator.rest.iter = IterativeOrderVec(iter, iterator.order)
              /\ iterator.rest.rec = RecursiveOrderVec(rec, iterator.order)
        /\ (Len(iterator.yielded.iter) > 0 /\ iter.size > 0) =>
              /\ iterator.yielded.iter[1]
                    = Some(Head(IterativeOrderVec(iter, iterator.order)))
              /\ iterator.yielded.rec[1]
                    = Some(Head(RecursiveOrderVec(rec, iterator.order)))

\* A second pre_order_iter(), made after the first one had run over two
\* values and the tree had grown to three, has yielded all three.
C18_Witness ==
    /\ iterator.kind = "borrowing"
    /\ iterator.order = "pre"
    /\ iterator.earlier = Some([order |-> "pre", len |-> 2])
    /\ iter.size = 3
    /\ Yields(iterator.yielded.iter) = IterativeBST_pre_order_vec(iter)
    /\ Yields(iterator.yielded.rec) = RecursiveBST_pre_order_vec(rec)
    /\ Exhaustions(iterator.yielded.iter) = 1

\* Writing new over old moves it across an ancestor of old's node: the node
\* is in the left subtree of an ancestor that new exceeds, or in the right
\* subtree of one that exceeds new.
CrossesAncestor(root, old, new) ==
    \E n \in NodesOf(root) :
        \/ old \in ValuesOf(n.left) /\ new > n.value
        \/ old \in ValuesOf(n.right) /\ new < n.value

\* The call found `old` and wrote `new` over it.
Wrote(old, new) ==
    /\ last.op = "retrieve_as_mut"
    /\ last.arg = <<old, new>>
    /\ last.ret.iter = Some(old)

\* A stored value the searches cannot see.
C19_Hidden(v, in, contains, retrieve, retrieve_as_mut, remove, bst) ==
    /\ v \in Range(in)
    /\ ~contains
    /\ retrieve = None
    /\ retrieve_as_mut = None
    /\ remove = [bst |-> bst, panic |-> FALSE]

\* C19: retrieve_as_mut accepts any write.  When a value of an ordered tree is
\* overwritten with a value not in the tree that crosses an ancestor of its
\* node, nothing panics or fails, size stays, the tree is no longer ordered,
\* and the new value, although in in_order_vec(), is absent for contains,
\* retrieve and retrieve_as_mut and is left in place by remove.
C19_UnguardedWrite ==
    /\ ~panicked
    /\ \A old, new \in MutValues :
          Wrote(old, new) =>
             /\ last.ret.rec = Some(old)
             /\ iter.root = assign(before.iter.root, PathOf(before.iter.root, old), new)
             /\ rec.root = assign(before.rec.root, PathOf(before.rec.root, old), new)
             /\ iter.size = before.iter.size /\ rec.size = before.rec.size
             /\ (new \notin ValuesOf(before.iter.root)
                 /\ CrossesAncestor(before.iter.root, old, new)) =>
                   /\ ~Ordered(iter.root) /\ ~Ordered(rec.root)
                   /\ C19_Hidden(new, IterativeBST_in_order_vec(iter),
                                 IterativeBST_contains(iter, new),
                                 IterativeBST_retrieve(iter, new),
                                 IterativeBST_retrieve_as_mut(iter, new),
                                 IterativeBST_remove(iter, new), iter)
                   /\ C19_Hidden(new, RecursiveBST_in_order_vec(rec),
                                 RecursiveBST_contains(rec, new),
                                 RecursiveBST_retrieve(rec, new),
                                 RecursiveBST_retrieve_as_mut(rec, new),
                                 RecursiveBST_remove(rec, new), rec)

\* remove(v) has just left a tree unchanged in which v is stored: an earlier
\* write had put v where the search does not look.
C19_Witness ==
    /\ last.op = "remove"
    /\ \E v \in MutValues :
          /\ last.arg = <<v>>
          /\ v \in Range(IterativeBST_in_order_vec(iter))
          /\ v \in Range(RecursiveBST_in_order_vec(rec))
          /\ ~IterativeBST_contains(iter, v)
          /\ RecursiveBST_retrieve(rec, v) = None
    /\ iter = before.iter /\ rec = before.rec
    /\ ~Ordered(iter.root)
    /\ ~panicked

\* new lies strictly between the in-order neighbours of old in the ascending
\* sequence `in`, and differs from old.
BetweenNeighbours(in, old, new) ==
    LET k == FirstIndex(in, old) IN
    /\ new # old
    /\ k > 1 => in[k - 1] < new
    /\ k < Len(in) => new < in[k + 1]

\* b, a: a container before and after the write; built: the container built
\* by inserting the old pre-order sequence with old replaced by new; sorted:
\* the one built from the old ascending sequence with old replaced by new.
C20_Holds(b, a, old, new, retrieve_as_mut_old, retrieve_old, retrieve_new,
          built, sorted, equal) ==
    /\ Ordered(a.root)
    /\ retrieve_as_mut_old = None
    /\ retrieve_old = None
    /\ retrieve_new = Some(new)
    /\ a.size = b.size
    /\ a.size = CountNodes(a.root)
    /\ a = built
    /\ equal
    /\ ValuesOf(a.root) = (ValuesOf(b.root) \ {old}) \cup {new}

\* C20: when a value a found by retrieve_as_mut(&a) is overwritten with a
\* value b strictly between a's in-order neighbours, the order is kept, and
\* afterwards retrieve_as_mut(&a) and retrieve(&a) are None, retrieve(&b) is
\* Some(&b), size is unchanged and the tree equals the tree built from the
\* original values with a replaced by b.
C20_OrderPreservingWrite ==
    \A old, new \in MutValues :
        (/\ Wrote(old, new)
         /\ BetweenNeighbours(IterativeBST_in_order_vec(before.iter), old, new)) =>
            /\ ~panicked
            /\ C20_Holds(before.iter, iter, old, new,
                         IterativeBST_retrieve_as_mut(iter, old),
                         IterativeBST_retrieve(iter, old),
                         IterativeBST_retrieve(iter, new),
                         IterativeBST_from_vec(
                             Replace(IterativeBST_pre_order_vec(before.iter), old, new)),
                         IterativeBST_from_vec(
                             Replace(IterativeBST_asc_order_vec(before.iter), old, new)),
                         IterativeBST_eq(iter, IterativeBST_from_vec(
                             Replace(IterativeBST_asc_order_vec(before.iter), old, new))))
            /\ C20_Holds(before.rec, rec, old, new,
                         RecursiveBST_retrieve_as_mut(rec, old),
                         RecursiveBST_retrieve(rec, old),
                         RecursiveBST_retrieve(rec, new),
                         RecursiveBST_from_vec(
                             Replace(RecursiveBST_pre_order_vec(before.rec), old, new)),
                         RecursiveBST_from_vec(
                             Replace(RecursiveBST_asc_order_vec(before.rec), old, new)),
                         RecursiveBST_eq(rec, RecursiveBST_from_vec(
                             Replace(RecursiveBST_asc_order_vec(before.rec), old, new))))

\* 2 overwritten with 3 in a tree holding 1, 2, 4, at the node above 1 and 4.
C20_Witness ==
    /\ Wrote(2, 3)
    /\ IterativeBST_in_order_vec(before.iter) = <<1, 2, 4>>
    /\ IterativeBST_in_order_vec(iter) = <<1, 3, 4>>
    /\ RecursiveBST_in_order_vec(rec) = <<1, 3, 4>>
    /\ HasTwoChildren(iter.root, 3)
    /\ IterativeBST_retrieve(iter, 2) = None
    /\ iter.size = 3


\* C21: clone() of a tree built by inserts and removals compares equal to the
\* original (same ascending sequence) and has the same size(); clone_from
\* makes the receiver equal to its argument whatever the receiver held
\* before; either way the original is left as it was.
C21_CopyOf(copy, original, pre_before, pre_after, asc_copy, asc_original, eq) ==
    /\ eq
    /\ asc_copy = asc_original
    /\ copy.size = original.size
    /\ pre_after = pre_before

C21_CloneEqualsOriginal ==
    last.op \in {"clone", "clone_from"} =>
        /\ C21_CopyOf(bstA.iter, iter,
                      IterativeBST_pre_order_vec(before.iter),
                      IterativeBST_pre_order_vec(iter),
                      IterativeBST_asc_order_vec(bstA.iter),
                      IterativeBST_asc_order_vec(iter),
                      IterativeBST_eq(bstA.iter, iter))
        /\ C21_CopyOf(bstA.rec, rec,
                      RecursiveBST_pre_order_vec(before.rec),
                      RecursiveBST_pre_order_vec(rec),
                      RecursiveBST_asc_order_vec(bstA.rec),
                      RecursiveBST_asc_order_vec(rec),
                      RecursiveBST_eq(bstA.rec, rec))
        /\ iter = before.iter
        /\ rec = before.rec

\* clone_from has run on a receiver that held two values the source does not
\* hold, while the source holds one value that the receiver did not.
C21_Witness ==
    /\ last.op = "clone_from"
    /\ bstB.iter.size = 2
    /\ ValuesOf(bstB.iter.root) \cap ValuesOf(iter.root) = {}
    /\ iter.size = 1
    /\ bstA.iter.size = 1
    /\ bstB.rec.size = 2
    /\ bstA.rec.size = 1

\* C22: in every state reachable by insert, remove, remove_min and remove_max
\* no public operation of either container panics: no call made so far has
\* panicked, and remove of any value, remove_min, remove_max and height,
\* called now, reach their unwraps only with the link present; the borrowing
\* and consuming traversals run through their stack and queue unwraps and
\* deliver one value for every node.
C22_Traversals(size, vecs) ==
    \A i \in 1..Len(vecs) : Len(vecs[i]) = size

C22_NoPanic ==
    /\ ~panicked
    /\ \A value \in Values :
        /\ ~IterativeBST_remove(iter, value).panic
        /\ ~RecursiveBST_remove(rec, value).panic
    /\ ~IterativeBST_remove_min(iter).panic
    /\ ~RecursiveBST_remove_min(rec).panic
    /\ ~IterativeBST_remove_max(iter).panic
    /\ ~RecursiveBST_remove_max(rec).panic
    /\ ~IterativeBST_height(iter).panic
    /\ ~RecursiveBST_height(rec).panic
    /\ C22_Traversals(CountNodes(iter.root),
                      <<IterativeBST_iter(iter, "pre"), IterativeBST_iter(iter, "in"),
                        IterativeBST_iter(iter, "post"), IterativeBST_iter(iter, "level"),
                        IterativeBST_into_iter(iter, "pre"),
                        IterativeBST_into_iter(iter, "in"),
                        IterativeBST_into_iter(iter, "post"),
                        IterativeBST_into_iter(iter, "level")>>)
    /\ C22_Traversals(CountNodes(rec.root),
                      <<RecursiveBST_iter(rec, "pre"), RecursiveBST_iter(rec, "in"),
                        RecursiveBST_iter(rec, "post"), RecursiveBST_iter(rec, "level"),
                        RecursiveBST_into_iter(rec, "pre"),
                        RecursiveBST_into_iter(rec, "in"),
                        RecursiveBST_into_iter(rec, "post"),
                        RecursiveBST_into_iter(rec, "level")>>)

\* remove has just taken out a node with two children whose right subtree
\* has a left branch (the unwrap of remove_min on the right subtree, and the
\* root unwraps of its descent), without panicking.
C22_Witness ==
    /\ last.op = "remove"
    /\ ~panicked
    /\ HasTwoChildren(before.iter.root, last.arg[1])
    /\ HasTwoChildren(before.rec.root, last.arg[1])
    /\ is_some(unwrap(NodeOf(before.iter.root, last.arg[1]).right).left)
    /\ iter.size = before.iter.size - 1
    /\ rec.size = before.rec.size - 1

C24_NodeHeightSentinel ==
    last.op = "node_height" =>
        /\ ~panicked
        /\ is_none(before.iter.root) => last.ret.iter = Some(-1)
        /\ is_none(before.rec.root) => last.ret.rec = Some(-1)
        /\ before.iter.size = 1 => last.ret.iter = Some(0)
        /\ before.rec.size = 1 => last.ret.rec = Some(0)

\* The slot that the search for v ends at in a tree that does not hold v.
RECURSIVE SearchSlot(_, _)
SearchSlot(root, v) ==
    IF is_none(root) THEN <<>>
    ELSE IF v < unwrap(root).value
         THEN <<"left">> \o SearchSlot(unwrap(root).left, v)
         ELSE <<"right">> \o SearchSlot(unwrap(root).right, v)

\* C25: a successful insert(v) puts v in a new childless node at the absent
\* slot that the search descent for v reaches and changes nothing else: every
\* node stored before keeps its value, its parent and its children, so the
\* pre-order, post-order and level-order vectors after the insert, with v
\* deleted, are the vectors before the insert.
C25_Holds(b, a, v, pre_b, pre_a, post_b, post_a, level_b, level_a) ==
    LET at == SearchSlot(b.root, v) IN
    /\ is_none(slot(b.root, at))
    /\ slot(a.root, at) = Some(Node_new(v))
    /\ a.root = write(b.root, at, Some(Node_new(v)))
    /\ \A n \in NodesOf(b.root) :
        /\ PathOf(a.root, n.value) = PathOf(b.root, n.value)
        /\ \A side \in {"left", "right"} :
            /\ is_some(n[side]) /\ unwrap(n[side]).value # v =>
                  is_some(NodeOf(a.root, n.value)[side])
                  /\ unwrap(NodeOf(a.root, n.value)[side]).value = unwrap(n[side]).value
            /\ is_none(n[side]) /\ is_some(NodeOf(a.root, n.value)[side]) =>
                  NodeOf(a.root, n.value)[side] = Some(Node_new(v))
    /\ Delete(pre_a, v) = pre_b
    /\ Delete(post_a, v) = post_b
    /\ Delete(level_a, v) = level_b
    /\ a.size = b.size + 1

C25_InsertFrame ==
    (last.op = "insert" /\ last.arg[1] \notin ValuesOf(before.iter.root)) =>
        /\ C25_Holds(before.iter, iter, last.arg[1],
                     IterativeBST_pre_order_vec(before.iter),
                     IterativeBST_pre_order_vec(iter),
                     IterativeBST_post_order_vec(before.iter),
                     IterativeBST_post_order_vec(iter),
                     IterativeBST_level_order_vec(before.iter),
                     IterativeBST_level_order_vec(iter))
        /\ C25_Holds(before.rec, rec, last.arg[1],
                     RecursiveBST_pre_order_vec(before.rec),
                     RecursiveBST_pre_order_vec(rec),
                     RecursiveBST_post_order_vec(before.rec),
                     RecursiveBST_post_order_vec(rec),
                     RecursiveBST_level_order_vec(before.rec),
                     RecursiveBST_level_order_vec(rec))

\* insert(v) has just put v two links below the root of a tree of at least
\* three values, under a node that already had its other child.
C25_Witness ==
    /\ last.op = "insert"
    /\ last.arg[1] \notin ValuesOf(before.iter.root)
    /\ before.iter.size >= 3
    /\ Len(PathOf(iter.root, last.arg[1])) = 2
    /\ Len(PathOf(rec.root, last.arg[1])) = 2
    /\ \E n \in NodesOf(iter.root) :
        /\ HasTwoChildren(iter.root, n.value)
        /\ last.arg[1] \in {unwrap(n.left).value, unwrap(n.right).value}
        /\ Len(PathOf(iter.root, n.value)) = 1

\* How often x occurs in seq.
Count(seq, x) == Cardinality({i \in 1..Len(seq) : seq[i] = x})

\* C26: in RecursiveBST::into_level_order_iter the passes of
\* write_level_into_vec for the levels 0..=height read the value of every
\* node exactly once, in the pass of the node's depth; dealloc_boxes then
\* frees every node and forgets every value exactly once and runs no
\* destructor of a value, so every stored value is owned once, by the output
\* vector, which has size() elements.
C26_Holds(bst, out) ==
    LET root == bst.root
        height == recursive_height(root)
        end == dealloc_boxes(root)
    IN  /\ \A n \in NodesOf(root) :
            /\ \A level \in 0..height :
                  Count(write_level_into_vec(root, <<>>, level), n.value)
                      = IF level = Len(PathOf(root, n.value)) THEN 1 ELSE 0
            /\ Len(PathOf(root, n.value)) \in 0..height
            /\ Count(end.freed, n.value) = 1
            /\ Count(end.forgotten, n.value) = 1
            /\ Count(out, n.value) + Count(end.dropped, n.value) = 1
        /\ end.dropped = <<>>
        /\ Len(end.freed) = bst.size
        /\ Len(end.forgotten) = bst.size
        /\ Len(out) = bst.size
        /\ out = recursive_consume_level_order_vec(root, <<>>)

C26_LevelOrderOwnership ==
    (iterator.kind = "consuming" /\ iterator.order = "level") =>
        C26_Holds(before.rec, Yields(iterator.yielded.rec) \o iterator.rest.rec)

\* into_level_order_iter() has consumed a four-node tree of height 2 whose
\* levels hold one, two and one nodes.
C26_Witness ==
    /\ iterator.kind = "consuming"
    /\ iterator.order = "level"
    /\ before.rec.size = 4
    /\ recursive_height(before.rec.root) = 2
    /\ HasTwoChildren(before.rec.root, unwrap(before.rec.root).value)
    /\ Len(iterator.rest.rec) = 4

\* The number of nodes of a tree that have a left child.
RECURSIVE LeftLinks(_)
LeftLinks(root) ==
    IF is_none(root) THEN 0
    ELSE (IF is_some(unwrap(root).left) THEN 1 ELSE 0)
         + LeftLinks(unwrap(root).left) + LeftLinks(unwrap(root).right)

\* What is left to do for a stack of links: one for every entry, one for
\* every node and two for every left child still attached.
RECURSIVE Measure(_)
Measure(stack) ==
    IF stack = <<>> THEN 0
    ELSE 1 + CountNodes(Head(stack)) + 2 * LeftLinks(Head(stack)) + Measure(Tail(stack))

\* C27: the explicit-stack loop of Node::iterative_consume_in_order_vec
\* terminates for every finite tree: every iteration detaches a left child,
\* emits a value or discards an empty link, and takes the measure of the
\* stack down by one; the loop is always left in the end, and then the stack
\* is empty and the output holds every stored value once in ascending order.
C27_Iteration(stack, elements, stack_after, elements_after) ==
    /\ Measure(stack_after) = Measure(stack) - 1
    /\ \/ /\ is_some(Top(stack)) /\ is_some(unwrap(Top(stack)).left)
          /\ Len(stack_after) = Len(stack) + 1
          /\ is_none(unwrap(stack_after[Len(stack)]).left)
          /\ Top(stack_after) = unwrap(Top(stack)).left
          /\ elements_after = elements
       \/ /\ is_some(Top(stack)) /\ is_none(unwrap(Top(stack)).left)
          /\ elements_after = Append(elements, unwrap(Top(stack)).value)
          /\ stack_after = Append(Pop(stack), unwrap(Top(stack)).right)
       \/ /\ is_none(Top(stack))
          /\ stack_after = Pop(stack)
          /\ elements_after = elements

C27_ConsumeInOrderTerminates ==
    /\ [](frame.pc = "done" =>
            /\ frame.stack = <<>>
            /\ frame.elements = SortSet(ValuesOf(before.iter.root))
            /\ EachOnce(frame.elements, before.iter.root)
            /\ Len(frame.elements) = before.iter.size
            /\ frame.elements = iterative_consume_in_order_vec(before.iter.root))
    /\ [][(frame.pc = "loop" /\ frame'.pc = "loop") =>
            C27_Iteration(frame.stack, frame.elements, frame'.stack, frame'.elements)]_vars
    /\ (frame.pc = "loop" ~> frame.pc = "done")

\* The loop has ended on a four-node tree whose root had both children and
\* in which some node below the root had a left child.
C27_Witness ==
    /\ frame.pc = "done"
    /\ before.iter.size = 4
    /\ HasTwoChildren(before.iter.root, unwrap(before.iter.root).value)
    /\ LeftLinks(before.iter.root) = 2
    /\ frame.elements = <<1, 2, 3, 4>>

\* C28: clone() does not keep the shape: it inserts the values in ascending
\* order, so the copy of a non-empty tree is a chain of right children whose
\* pre_order_vec and level_order_vec are both the asc_order_vec of the
\* original and whose height() is Some(size() - 1), whatever the shape and
\* height of the original.
C28_RightChain(copy, pre, level, height, asc_original) ==
    /\ \A n \in NodesOf(copy.root) : is_none(n.left)
    /\ pre = asc_original
    /\ level = asc_original
    /\ ~height.panic
    /\ height.ret = Some(copy.size - 1)
    /\ copy.size = Len(asc_original)

C28_CloneIsRightChain ==
    (last.op \in {"clone", "clone_from"} /\ iter.size > 0) =>
        /\ C28_RightChain(bstA.iter,
                          IterativeBST_pre_order_vec(bstA.iter),
                          IterativeBST_level_order_vec(bstA.iter),
                          IterativeBST_height(bstA.iter),
                          IterativeBST_asc_order_vec(iter))
        /\ C28_RightChain(bstA.rec,
                          RecursiveBST_pre_order_vec(bstA.rec),
                          RecursiveBST_level_order_vec(bstA.rec),
                          RecursiveBST_height(bstA.rec),
                          RecursiveBST_asc_order_vec(rec))

\* clone() has copied a three-node tree of height 1, whose root has both
\* children, into a chain of height 2.
C28_Witness ==
    /\ last.op = "clone"
    /\ iter.size = 3
    /\ HasTwoChildren(iter.root, unwrap(iter.root).value)
    /\ IterativeBST_height(iter).ret = Some(1)
    /\ IterativeBST_height(bstA.iter).ret = Some(2)
    /\ RecursiveBST_height(rec).ret = Some(1)
    /\ RecursiveBST_height(bstA.rec).ret = Some(2)
    /\ IterativeBST_pre_order_vec(bstA.iter) # IterativeBST_pre_order_vec(iter)

\* Some value is stored in two nodes.
HasDuplicates(root) == Cardinality(ValuesOf(root)) < CountNodes(root)

\* C29: even when writes through retrieve_as_mut have put arbitrary values
\* into stored nodes (breaking the order, creating duplicates), every later
\* insert, remove, remove_min, remove_max, height and traversal call
\* completes without panicking and size() is the number of nodes reachable
\* from the root: a successful removal unlinks exactly one node and a
\* successful insert adds exactly one.
C29_Sound(bst, b, panics, vecs) ==
    /\ \A i \in 1..Len(panics) : ~panics[i]
    /\ bst.size = CountNodes(bst.root)
    /\ \A i \in 1..Len(vecs) : Len(vecs[i]) = bst.size
    /\ last.op \in {"remove", "remove_min", "remove_max"} =>
           /\ CountNodes(bst.root) \in {CountNodes(b.root), CountNodes(b.root) - 1}
           /\ bst.size - b.size = CountNodes(bst.root) - CountNodes(b.root)
    /\ last.op = "insert" =>
           /\ CountNodes(bst.root) \in {CountNodes(b.root), CountNodes(b.root) + 1}
           /\ bst.size - b.size = CountNodes(bst.root) - CountNodes(b.root)
    /\ last.op \in {"height", "retrieve_as_mut"} =>
           CountNodes(bst.root) = CountNodes(b.root)

C29_ArbitraryWrites ==
    /\ ~panicked
    /\ C29_Sound(iter, before.iter,
                 <<IterativeBST_remove_min(iter).panic,
                   IterativeBST_remove_max(iter).panic,
                   IterativeBST_height(iter).panic>>
                   \o [v \in 1..ArbVal |-> IterativeBST_remove(iter, v).panic],
                 <<IterativeBST_iter(iter, "pre"), IterativeBST_iter(iter, "in"),
                   IterativeBST_iter(iter, "post"), IterativeBST_iter(iter, "level"),
                   IterativeBST_into_iter(iter, "pre"),
                   IterativeBST_into_iter(iter, "in"),
                   IterativeBST_into_iter(iter, "post"),
                   IterativeBST_into_iter(iter, "level")>>)
    /\ C29_Sound(rec, before.rec,
                 <<RecursiveBST_remove_min(rec).panic,
                   RecursiveBST_remove_max(rec).panic,
                   RecursiveBST_height(rec).panic>>
                   \o [v \in 1..ArbVal |-> RecursiveBST_remove(rec, v).panic],
                 <<RecursiveBST_iter(rec, "pre"), RecursiveBST_iter(rec, "in"),
                   RecursiveBST_iter(rec, "post"), RecursiveBST_iter(rec, "level"),
                   RecursiveBST_into_iter(rec, "pre"),
                   RecursiveBST_into_iter(rec, "in"),
                   RecursiveBST_into_iter(rec, "post"),
                   RecursiveBST_into_iter(rec, "level")>>)

\* remove(v) has just taken exactly one node out of a three-node tree that
\* writes had left out of order and holding a value twice.
C29_Witness ==
    /\ last.op = "remove"
    /\ ~panicked
    /\ before.iter.size = 3
    /\ ~Ordered(before.iter.root)
    /\ HasDuplicates(before.iter.root)
    /\ ~Ordered(before.rec.root)
    /\ HasDuplicates(before.rec.root)
    /\ iter.size = 2
    /\ CountNodes(iter.root) = 2
    /\ rec.size = 2
    /\ CountNodes(rec.root) = 2

\* C30: for every tree built by inserts and removals and every value v that
\* it does not hold, insert(v) followed at once by remove(&v) restores the
\* tree exactly: size() and the pre-order, in-order, post-order and
\* level-order vectors, hence the shape, are what they were before the insert.
C30_Restored(b, a, pre_b, pre_a, in_b, in_a, post_b, post_a, level_b, level_a) ==
    /\ a.size = b.size
    /\ pre_a = pre_b
    /\ in_a = in_b
    /\ post_a = post_b
    /\ level_a = level_b
    /\ a.root = b.root

C30_InsertRemoveRestores ==
    (last.op = "insert_remove" /\ last.arg[1] \notin ValuesOf(before.iter.root)) =>
        /\ ~panicked
        /\ C30_Restored(before.iter, iter,
                        IterativeBST_pre_order_vec(before.iter),
                        IterativeBST_pre_order_vec(iter),
                        IterativeBST_in_order_vec(before.iter),
                        IterativeBST_in_order_vec(iter),
                        IterativeBST_post_order_vec(before.iter),
                        IterativeBST_post_order_vec(iter),
                        IterativeBST_level_order_vec(before.iter),
                        IterativeBST_level_order_vec(iter))
        /\ C30_Restored(before.rec, rec,
                        RecursiveBST_pre_order_vec(before.rec),
                        RecursiveBST_pre_order_vec(rec),
                        RecursiveBST_in_order_vec(before.rec),
                        RecursiveBST_in_order_vec(rec),
                        RecursiveBST_post_order_vec(before.rec),
                        RecursiveBST_post_order_vec(rec),
                        RecursiveBST_level_order_vec(before.rec),
                        RecursiveBST_level_order_vec(rec))

\* insert(v) then remove(&v) has run on a four-node tree that did not hold
\* v and whose search for v ends two links below the root.
C30_Witness ==
    /\ last.op = "insert_remove"
    /\ last.arg[1] \notin ValuesOf(before.iter.root)
    /\ before.iter.size = 4
    /\ Len(SearchSlot(before.iter.root, last.arg[1])) = 2
    /\ iter = before.iter
    /\ rec = before.rec
====
